---- MODULE Spec2Model ----
(***************************************************************************)
(* A model of the semantic analyzer (src/src/analyze.c) and the x86-64     *)
(* backend (src/src/x86asm.c) of ecc.                                      *)
(*                                                                         *)
(* The module holds several specifications, one per part of the program:   *)
(*   SpecStack    stack-slot assignment while a routine is lowered         *)
(*   SpecRoutine  x86_write_routine: prologue, body, epilogue              *)
(*   SpecInit     an initialized declaration of static storage duration:   *)
(*                add_initializer_list_semantics, then the static image    *)
(*   SpecAssign   can_assign on the types of an assignment's operands      *)
(*   SpecExpr     the handlers that type an expression, bottom up          *)
(*   SpecCond     analyze_conditional_expression_after                     *)
(*   SpecNull     syntax_is_null_ptr_constant                              *)
(*   SpecData     x86_write_data: the directives of a data object          *)
(*   SpecInsn     x86_write_insn: the mnemonic of one instruction          *)
(*   SpecEnum     analyze_enumeration_constant_after on an enumerator list *)
(*   SpecSwitch   analyze_switch_statement_after and its body traversal    *)
(*   SpecAddr     analyze_static_initializer_after on an address constant  *)
(*   SpecRodata   the helper data of the SSE recipes in the file's rodata  *)
(*   SpecExec     the instructions emitted for a comparison or for a       *)
(*                conversion to an unsigned integer, executed              *)
(*   SpecText     x86_write_insn: an instruction with its operands         *)
(*   SpecElide    add_initializer_list_semantics on lists without braces   *)
(* Every specification owns a few of the variables and leaves the others   *)
(* at their idle value.                                                    *)
(***************************************************************************)
EXTENDS Integers, Sequences, FiniteSets, TLC

VARIABLES
    bpc,        \* backend position: "air", "lowering", "generated", "written", "idle"
    aroutine,   \* air_routine_t handed to x86_generate_routine: [uses_varargs]
    routine,    \* x86_asm_routine_t
    symtab,     \* automatic/static symbols of the routine: name -> symbol_t fields
    x86op,      \* the operand air_operand_to_x86_operand returned last, with its call
    out,        \* the lines x86_write_routine or x86_write_data printed
    data,       \* x86_asm_data_t handed to x86_write_data
    ipc,        \* analyze_init_declarator_after: "declared", "elaborated", "done", "idle"
    decl,       \* the init declarator: [target: type of the symbol, init: initializer]
    types,      \* the c_type_t objects, by handle (an unspecified array length is fixed here)
    sem,        \* initializer_offset / initializer_ctype of every initializer node, by path
    errors,     \* the traverser's diagnostics in report order
    image,      \* sy->data, byte by byte: the <<path, k>> of the leaf byte stored there
    writes,     \* the memcpy calls of analyze_static_initializer_after, in order
    expr,       \* the expression node the traverser decorated last, and what its handler did
    assign      \* a call of can_assign or syntax_is_null_ptr_constant: arguments and, once returned, result

backendVars == <<bpc, aroutine, routine, symtab, x86op, out, data>>
initVars == <<ipc, decl, types, sem, errors, image, writes>>
exprVars == <<expr, assign>>
analyzerVars == <<initVars, exprVars>>
vars == <<backendVars, analyzerVars>>

\* no expression is being analyzed
ExprIdle ==
    /\ expr = [pc |-> "idle"]
    /\ assign = [pc |-> "idle"]

\* no init declarator is being analyzed
InitIdle ==
    /\ ipc = "idle"
    /\ decl = [target |-> "", init |-> <<>>]
    /\ types = <<>>
    /\ sem = <<>>
    /\ errors = <<>>
    /\ image = <<>>
    /\ writes = <<>>

\* the analyzer takes no part in a specification of the backend
AnalyzerIdle == InitIdle /\ ExprIdle

(***************************************************************************)
(* Bounds of the model.                                                    *)
(***************************************************************************)
NumSyms == 2        \* automatic symbols of a lowered routine
MaxInsns == 2       \* instructions of a written routine

(***************************************************************************)
(* Small helpers.                                                          *)
(***************************************************************************)
Abs(x) == IF x < 0 THEN -x ELSE x

\* C's % on long long: the remainder has the sign of the dividend.
CRem(a, b) == IF a >= 0 THEN a % b ELSE -((-a) % b)

SeqsUpTo(S, n) == UNION {[1..k -> S] : k \in 0..n}

RECURSIVE Reverse(_)
Reverse(s) == IF s = <<>> THEN <<>> ELSE Reverse(Tail(s)) \o <<Head(s)>>

RECURSIVE SelectInOrder(_, _)
\* the elements of the sequence s that are in the set S, in the order of s
SelectInOrder(s, S) ==
    IF s = <<>> THEN <<>>
    ELSE (IF Head(s) \in S THEN <<Head(s)>> ELSE <<>>) \o SelectInOrder(Tail(s), S)

SeqToSet(s) == {s[i] : i \in 1..Len(s)}

(***************************************************************************)
(* x86 operands and instructions (x86_operand_t, x86_insn_t).              *)
(* An operand is a tagged union; `reg` is what the union member reg reads: *)
(* the register of a register operand and, for an immediate, the register  *)
(* id the immediate's value happens to equal.                              *)
(***************************************************************************)
NullOp == [type |-> "NULL", reg |-> "none", lkind |-> "", lid |-> 0, disp |-> 0]

make_operand_register(r) ==
    [type |-> "X86OP_REGISTER", reg |-> r, lkind |-> "", lid |-> 0, disp |-> 0]

make_operand_immediate(alias) ==
    [type |-> "X86OP_IMMEDIATE", reg |-> alias, lkind |-> "", lid |-> 0, disp |-> 0]

\* a label ".L<kind><id>"; x86_generate_return makes ".LR<routine id>"
make_operand_label(kind, id) ==
    [type |-> "X86OP_LABEL", reg |-> "none", lkind |-> kind, lid |-> id, disp |-> 0]

make_operand_deref_register(r, offset) ==
    [type |-> "X86OP_DEREF_REGISTER", reg |-> r, lkind |-> "", lid |-> 0, disp |-> offset]

make_operand_label_ref(name, offset) ==
    [type |-> "X86OP_LABEL_REF", reg |-> "none", lkind |-> name, lid |-> 0, disp |-> offset]

Insn(t, o1, o2) == [type |-> t, size |-> "X86SZ_QWORD", op1 |-> o1, op2 |-> o2, op3 |-> NullOp]

\* x86_insn_writes: the operand positions the instruction writes (the bit mask
\* X86_INSN_WRITES_OP1/2/3 as a set of positions)
x86_insn_writes(insn) ==
    CASE insn.type \in {"X86I_CALL", "X86I_PUSH", "X86I_JMP", "X86I_CMP", "X86I_TEST",
                        "X86I_NOP", "X86I_LEAVE", "X86I_RET"} -> {}
      [] insn.type \in {"X86I_POP", "X86I_SETE", "X86I_NOT", "X86I_NEG", "X86I_MUL"} -> {1}
      [] insn.type \in {"X86I_LEA", "X86I_AND", "X86I_OR", "X86I_XOR", "X86I_MOV",
                        "X86I_ADD", "X86I_SUB", "X86I_IMUL"} -> {2}
      [] OTHER -> {}

NONVOLATILE_REGISTER_NAMES == <<"rbx", "r12", "r13", "r14", "r15">>

InsnOps(insn) == <<insn.op1, insn.op2, insn.op3>>

\* one iteration of the outer loop of x86_find_used_nonvolatiles: the flags the
\* instruction adds to routine->used_nonvolatiles
NonvolatilesOfInsn(insn) ==
    IF \E i \in 1..3 :
          /\ InsnOps(insn)[i].type # "NULL"
          /\ i \in x86_insn_writes(insn)
          /\ InsnOps(insn)[i].type = "X86OP_REGISTER"
    THEN {insn.op1.reg} \cap SeqToSet(NONVOLATILE_REGISTER_NAMES)    \* switch (insn->op1->reg)
    ELSE {}

x86_find_used_nonvolatiles(r) ==
    r.used_nonvolatiles \cup UNION {NonvolatilesOfInsn(r.insns[k]) : k \in 1..Len(r.insns)}

(***************************************************************************)
(* Printed lines.  A line is [op, a, b, n]: the mnemonic or directive, its *)
(* operands as text, and the one number of the line.                       *)
(***************************************************************************)
Line(op, a, b, n) == [op |-> op, a |-> a, b |-> b, n |-> n]

RECURSIVE MapLines(_, _)
MapLines(regs, op) ==
    IF regs = <<>> THEN <<>>
    ELSE <<Line(op, Head(regs), "", 0)>> \o MapLines(Tail(regs), op)

x86_write_routine_push_nonvolatiles(used) ==
    MapLines(SelectInOrder(NONVOLATILE_REGISTER_NAMES, used), "pushq")

x86_write_routine_pop_nonvolatiles(used) ==
    MapLines(SelectInOrder(Reverse(NONVOLATILE_REGISTER_NAMES), used), "popq")

\* the stores x86_write_varargs_setup prints, in order: "<op> %<a>, <n>(%rbp)"
x86_write_varargs_setup ==
    << Line("movq", "r9", "(rbp)", -8),
       Line("movq", "r8", "(rbp)", -16),
       Line("movq", "rcx", "(rbp)", -16),
       Line("movq", "rdx", "(rbp)", -24),
       Line("movq", "rdx", "(rbp)", -32),
       Line("movq", "rsi", "(rbp)", -40),
       Line("movq", "rdi", "(rbp)", -48),
       Line("movaps", "xmm7", "(rbp)", -64),
       Line("movaps", "xmm6", "(rbp)", -80),
       Line("movaps", "xmm5", "(rbp)", -96),
       Line("movaps", "xmm4", "(rbp)", -112),
       Line("movaps", "xmm3", "(rbp)", -128),
       Line("movaps", "xmm2", "(rbp)", -144),
       Line("movaps", "xmm1", "(rbp)", -160),
       Line("movaps", "xmm0", "(rbp)", -176) >>

\* x86_write_operand, as the text of the operand
x86_write_operand(op) ==
    CASE op.type = "X86OP_REGISTER" -> op.reg
      [] op.type = "X86OP_IMMEDIATE" -> "$"
      [] op.type = "X86OP_LABEL" -> ".L"
      [] op.type = "X86OP_DEREF_REGISTER" -> "(rbp)"
      [] op.type = "X86OP_LABEL_REF" -> "(rip)"
      [] OTHER -> ""

\* x86_write_insn: the line of one instruction
x86_write_insn(insn) ==
    IF insn.type = "X86I_JMP"
    THEN Line("jmp", ".L" , insn.op1.lkind, insn.op1.lid)
    ELSE Line(insn.type, x86_write_operand(insn.op1), x86_write_operand(insn.op2),
              IF insn.op1.type = "X86OP_DEREF_REGISTER" THEN insn.op1.disp ELSE insn.op2.disp)

\* starts_with_ignore_case(insn->op1->label, ".LR")
IsLRJump(insn) ==
    /\ insn.type = "X86I_JMP"
    /\ insn.op1.type = "X86OP_LABEL"
    /\ insn.op1.lkind \in {"R", "r"}

\* WriteInsns without the test of insn->next: the last return jump is printed
RECURSIVE WriteInsns_prints_last_jump(_)
WriteInsns_prints_last_jump(insns) ==
    IF insns = <<>> THEN <<>>
    ELSE <<x86_write_insn(Head(insns))>> \o WriteInsns_prints_last_jump(Tail(insns))

\* the loop of x86_write_routine over the instructions: the printed lines
RECURSIVE WriteInsns(_)
WriteInsns(insns) ==
    IF insns = <<>> THEN <<>>
    ELSE IF IsLRJump(Head(insns)) /\ Tail(insns) = <<>>
         THEN <<>>                                      \* if (!insn->next) continue;
         ELSE <<x86_write_insn(Head(insns))>> \o WriteInsns(Tail(insns))

\* lr_jumps after that loop
RECURSIVE CountLRJumps(_)
CountLRJumps(insns) ==
    IF insns = <<>> THEN 0
    ELSE (IF IsLRJump(Head(insns)) /\ Tail(insns) # <<>> THEN 1 ELSE 0)
         + CountLRJumps(Tail(insns))

\* SubqAmount without the rounding
SubqAmount_unrounded(stackalloc) == Abs(stackalloc)

SubqAmount(stackalloc) ==
    LET v == Abs(stackalloc) IN v + ((16 - (v % 16)) % 16)

\* x86_write_routine: everything it prints for the routine r, whose
\* used_nonvolatiles have been found
x86_write_routine(r) ==
    (IF r.global THEN <<Line(".globl", r.label, "", 0)>> ELSE <<>>)
    \o <<Line("label:", r.label, "", 0)>>
    \o <<Line("pushq", "rbp", "", 0), Line("movq", "rsp", "rbp", 0)>>
    \o (IF r.stackalloc # 0 THEN <<Line("subq", "$", "rsp", SubqAmount(r.stackalloc))>> ELSE <<>>)
    \o x86_write_routine_push_nonvolatiles(r.used_nonvolatiles)
    \o (IF r.uses_varargs THEN x86_write_varargs_setup ELSE <<>>)
    \o WriteInsns(r.insns)
    \o (IF CountLRJumps(r.insns) > 0 THEN <<Line("label:", ".LR", "", r.id)>> ELSE <<>>)
    \o x86_write_routine_pop_nonvolatiles(r.used_nonvolatiles)
    \o <<Line("leave", "", "", 0), Line("ret", "", "", 0)>>

(***************************************************************************)
(* x86_generate_routine: the routine as calloc and lines 2239-2247 leave   *)
(* it, before any instruction is lowered.                                  *)
(***************************************************************************)
VARARGS_SAVE_AREA == 176

x86_generate_routine(ar, id) ==
    [id |-> id, global |-> ar.global, label |-> "f", insns |-> <<>>,
     used_nonvolatiles |-> {},
     stackalloc |-> IF ar.uses_varargs THEN 0 - VARARGS_SAVE_AREA ELSE 0,
     uses_varargs |-> ar.uses_varargs]
(***************************************************************************)
(* Symbols of a routine (symbol_t): size and alignment of the type,        *)
(* storage duration, and the lazily assigned stack_offset (0: none yet).   *)
(***************************************************************************)
AutoSyms == {"s1", "s2", "s3", "s4"}
ModelAutoSyms == {s \in AutoSyms : \E k \in 1..NumSyms : s = <<"s1", "s2", "s3", "s4">>[k]}
StaticSym == "g"

\* (size, alignment) of the object types of the model: both in {1, 2, 4, 8},
\* the alignment dividing the size
ObjectLayouts ==
    {lay \in [size : {1, 2, 4, 8}, alignment : {1, 2, 4, 8}] : lay.size % lay.alignment = 0}

Disps == {0, 4}     \* the offset of an AOP_INDIRECT_SYMBOL operand (0 for AOP_SYMBOL)

\* the same with the remainder added, which rounds the offset up into the
\* bytes already given out
air_operand_to_x86_operand_rounds_up(r, st, s, offset) ==
    LET sy == st[s] IN
    IF sy.sd = "SD_STATIC"
    THEN [op |-> make_operand_label_ref(s, offset), routine |-> r, symtab |-> st]
    ELSE IF sy.stack_offset # 0
    THEN [op |-> make_operand_deref_register("rbp", sy.stack_offset + offset),
          routine |-> r, symtab |-> st]
    ELSE LET syoffset0 == r.stackalloc - sy.size
             syoffset == syoffset0 + Abs(CRem(syoffset0, sy.alignment))
         IN [op |-> make_operand_deref_register("rbp", syoffset + offset),
             routine |-> [r EXCEPT !.stackalloc = syoffset],
             symtab |-> [st EXCEPT ![s].stack_offset = syoffset]]

\* air_operand_to_x86_operand, case AOP_SYMBOL / AOP_INDIRECT_SYMBOL, for the
\* symbol sy of the table st and the routine r:
\* the operand returned, the routine and the symbol table afterwards
air_operand_to_x86_operand(r, st, s, offset) ==
    LET sy == st[s] IN
    IF sy.sd = "SD_STATIC"
    THEN [op |-> make_operand_label_ref(s, offset), routine |-> r, symtab |-> st]
    ELSE IF sy.stack_offset # 0
    THEN [op |-> make_operand_deref_register("rbp", sy.stack_offset + offset),
          routine |-> r, symtab |-> st]
    ELSE LET syoffset0 == r.stackalloc - sy.size
             syoffset == syoffset0 - Abs(CRem(syoffset0, sy.alignment))
         IN [op |-> make_operand_deref_register("rbp", syoffset + offset),
             routine |-> [r EXCEPT !.stackalloc = syoffset],
             symtab |-> [st EXCEPT ![s].stack_offset = syoffset]]

NoCall == [sy |-> "none", offset |-> 0, first |-> FALSE, before |-> 0, op |-> NullOp]

(***************************************************************************)
(* SpecStack: x86_generate_routine creates the routine, then lowers        *)
(* operands that name symbols, in any order and any number of times.       *)
(***************************************************************************)
IdleRoutine ==
    [id |-> 0, global |-> FALSE, label |-> "", insns |-> <<>>, used_nonvolatiles |-> {},
     stackalloc |-> 0, uses_varargs |-> FALSE]

\* the backend takes no part in a specification of the analyzer
BackendIdle ==
    /\ bpc = "idle"
    /\ aroutine = [uses_varargs |-> FALSE, global |-> FALSE]
    /\ routine = IdleRoutine
    /\ symtab = <<>>
    /\ x86op = <<>>
    /\ out = <<>>
    /\ data = [pc |-> "idle"]

InitStack ==
    /\ bpc = "air"
    /\ aroutine \in [uses_varargs : BOOLEAN, global : {TRUE}]
    /\ routine = IdleRoutine
    /\ \E lay \in [ModelAutoSyms -> ObjectLayouts] :
          symtab = [s \in ModelAutoSyms \cup {StaticSym} |->
                      IF s = StaticSym
                      THEN [size |-> 4, alignment |-> 4, sd |-> "SD_STATIC", stack_offset |-> 0]
                      ELSE [size |-> lay[s].size, alignment |-> lay[s].alignment,
                            sd |-> "SD_AUTOMATIC", stack_offset |-> 0]]
    /\ x86op = NoCall
    /\ out = <<>>
    /\ data = [pc |-> "idle"]
    /\ AnalyzerIdle

GenerateRoutine ==
    /\ bpc = "air"
    /\ routine' = x86_generate_routine(aroutine, 1)
    /\ bpc' = "lowering"
    /\ UNCHANGED <<aroutine, symtab, x86op, out, data, analyzerVars>>

LowerOperand ==
    /\ bpc = "lowering"
    /\ \E s \in DOMAIN symtab, offset \in Disps :
          LET res == air_operand_to_x86_operand(routine, symtab, s, offset) IN
          /\ routine' = res.routine
          /\ symtab' = res.symtab
          /\ x86op' = [sy |-> s, offset |-> offset,
                       first |-> (symtab[s].sd = "SD_AUTOMATIC" /\ symtab[s].stack_offset = 0),
                       before |-> routine.stackalloc, op |-> res.op]
    /\ UNCHANGED <<bpc, aroutine, out, data, analyzerVars>>

NextStack == GenerateRoutine \/ LowerOperand

SpecStack == InitStack /\ [][NextStack]_vars

(***************************************************************************)
(* SpecRoutine: a generated routine is written by x86_write_routine.       *)
(***************************************************************************)
ModelRegs == {"rax", "rbx", "r12"}

\* lines 1064-1071: the jump to the label ".LR<routine->id>"
x86_generate_return(id) == Insn("X86I_JMP", make_operand_label("R", id), NullOp)

\* instructions of the model, as the generators build them (AT&T order:
\* op1 is the source, op2 the destination)
InsnSet(id) ==
    {Insn("X86I_MOV", make_operand_register(a), make_operand_register(b)) :
        a \in ModelRegs, b \in ModelRegs}
    \cup {Insn("X86I_MOV", make_operand_immediate(a), make_operand_register("rax")) :
        a \in {"rax", "rbx"}}
    \cup {Insn("X86I_NEG", make_operand_register(a), NullOp) : a \in {"rax", "r12"}}
    \cup {Insn("X86I_PUSH", make_operand_register("rbx"), NullOp),
          Insn("X86I_CMP", make_operand_register("r12"), make_operand_register("rax")),
          Insn("X86I_MOV", make_operand_register("rbx"), make_operand_deref_register("rbp", -8)),
          x86_generate_return(id)}

\* stack allocations a generated routine can have: the start value and the
\* values after one int, or after a char and a char[8]
Stackallocs(uses_varargs) ==
    LET base == IF uses_varargs THEN 0 - VARARGS_SAVE_AREA ELSE 0
    IN {base, base - 4, base - 9}

InitRoutine ==
    /\ bpc = "generated"
    /\ aroutine \in [uses_varargs : BOOLEAN, global : BOOLEAN]
    /\ \E id \in {1, 2} :
       \E insns \in SeqsUpTo(InsnSet(id), MaxInsns) :
       \E sa \in Stackallocs(aroutine.uses_varargs) :
          routine = [x86_generate_routine(aroutine, id) EXCEPT !.insns = insns, !.stackalloc = sa]
    /\ symtab = <<>>
    /\ x86op = NoCall
    /\ out = <<>>
    /\ data = [pc |-> "idle"]
    /\ AnalyzerIdle

WriteRoutine ==
    /\ bpc = "generated"
    /\ LET r == [routine EXCEPT !.used_nonvolatiles = x86_find_used_nonvolatiles(routine)] IN
          /\ routine' = r
          /\ out' = x86_write_routine(r)
    /\ bpc' = "written"
    /\ UNCHANGED <<aroutine, symtab, x86op, data, analyzerVars>>

NextRoutine == WriteRoutine

SpecRoutine == InitRoutine /\ [][NextRoutine]_vars
(***************************************************************************)
(* What the printed prologue and epilogue say and do.                      *)
(***************************************************************************)
RECURSIVE LinesWith(_, _)
\* the lines of `lines` whose op is `op`, in order
LinesWith(lines, op) ==
    IF lines = <<>> THEN <<>>
    ELSE (IF Head(lines).op = op THEN <<Head(lines)>> ELSE <<>>) \o LinesWith(Tail(lines), op)

RECURSIVE RegsOf(_)
RegsOf(lines) == IF lines = <<>> THEN <<>> ELSE <<Head(lines).a>> \o RegsOf(Tail(lines))

\* the registers of the nonvolatile "pushq" lines (the frame's "pushq %rbp" is
\* not one of them) and of the "popq" lines, in printed order
PushedNonvolatiles(lines) == SelectInOrder(RegsOf(LinesWith(lines, "pushq")),
                                           SeqToSet(NONVOLATILE_REGISTER_NAMES))
PoppedNonvolatiles(lines) == RegsOf(LinesWith(lines, "popq"))

\* the nonvolatile registers some instruction writes: a plain register operand
\* in a position x86_insn_writes marks as written
WrittenNonvolatiles(insns) ==
    {r \in SeqToSet(NONVOLATILE_REGISTER_NAMES) :
        \E k \in 1..Len(insns) : \E i \in x86_insn_writes(insns[k]) :
            /\ InsnOps(insns[k])[i].type = "X86OP_REGISTER"
            /\ InsnOps(insns[k])[i].reg = r}

\* The register save area, in 8-byte slots named by their displacement from
\* rbp: slot d holds <<register, half>> once a store wrote it.
SaveSlots == {0 - 8 * j : j \in 1..(VARARGS_SAVE_AREA \div 8)}

IntArgRegs == {"rdi", "rsi", "rdx", "rcx", "r8", "r9"}
SseArgRegs == {"xmm0", "xmm1", "xmm2", "xmm3", "xmm4", "xmm5", "xmm6", "xmm7"}

\* movq stores 8 bytes (one slot), movaps 16 (two slots)
StoreLine(mem, l) ==
    [d \in SaveSlots |->
        IF d = l.n THEN <<l.a, 0>>
        ELSE IF l.op = "movaps" /\ d = l.n + 8 THEN <<l.a, 1>>
        ELSE mem[d]]

RECURSIVE ExecStores(_, _)
ExecStores(mem, lines) ==
    IF lines = <<>> THEN mem
    ELSE ExecStores(IF Head(lines).op \in {"movq", "movaps"} /\ Head(lines).b = "(rbp)"
                    THEN StoreLine(mem, Head(lines)) ELSE mem,
                    Tail(lines))

SaveAreaAfter(lines) == ExecStores([d \in SaveSlots |-> <<"none", 0>>], lines)

\* the entry value of the register is whole in the save area
Saved(mem, reg) ==
    IF reg \in IntArgRegs
    THEN \E d \in SaveSlots : mem[d] = <<reg, 0>>
    ELSE \E d \in SaveSlots : d + 8 \in SaveSlots /\ mem[d] = <<reg, 0>> /\ mem[d + 8] = <<reg, 1>>

(***************************************************************************)
(* C1: the nonvolatile registers pushed by the prologue are those popped   *)
(* by the epilogue, popped in reverse push order, and are exactly the      *)
(* nonvolatile registers some instruction of the routine writes.           *)
(* The code looks at op1 whatever operand is written, so this fails.       *)
(***************************************************************************)
C1_PushPopEqualWritten ==
    bpc = "written" =>
        /\ PoppedNonvolatiles(out) = Reverse(PushedNonvolatiles(out))
        /\ SeqToSet(PushedNonvolatiles(out)) = WrittenNonvolatiles(routine.insns)

(***************************************************************************)
(* C2: the offset given to an automatic symbol at its first use is         *)
(* negative, at most the previous stack allocation minus the symbol's      *)
(* size, and a multiple of the symbol's alignment.                         *)
(* The code subtracts the remainder instead of rounding down, so the       *)
(* offset is not always aligned.                                           *)
(***************************************************************************)
C2_FirstUseOffsetAligned ==
    (bpc = "lowering" /\ x86op.first) =>
        LET sy == symtab[x86op.sy] IN
        /\ sy.stack_offset < 0
        /\ sy.stack_offset <= x86op.before - sy.size
        /\ sy.stack_offset % sy.alignment = 0

(***************************************************************************)
(* C3: a variadic routine starts with 176 bytes allocated and its prologue *)
(* leaves the entry value of each of rdi, rsi, rdx, rcx, r8, r9 and        *)
(* xmm0..xmm7 in a slot of its own inside [rbp-176, rbp).                  *)
(* The code stores rcx over r8 and rdx twice, so this fails.               *)
(***************************************************************************)
C3_VarargsSaveArea ==
    (bpc = "written" /\ routine.uses_varargs) =>
        /\ routine.stackalloc <= 0 - VARARGS_SAVE_AREA
        /\ \A reg \in IntArgRegs \cup SseArgRegs : Saved(SaveAreaAfter(out), reg)
(***************************************************************************)
(* The analyzer: types (c_type_t).  A type is named by a handle into the   *)
(* table `types`; a descriptor is [class, size, members, elem, length,     *)
(* lexpr]: size for a scalar, members <<name, type>> for a struct or       *)
(* union, elem/length for an array (length -1: unspecified), lexpr: the    *)
(* array was declared with a length expression; qualifiers is the          *)
(* qualifier bitmask as a set; a pointer or function derives from elem.    *)
(***************************************************************************)
ScalarType(class, size) ==
    [class |-> class, size |-> size, members |-> <<>>, elem |-> "", length |-> 0, lexpr |-> FALSE,
     qualifiers |-> {}, variadic |-> FALSE]
StructType(members) == [ScalarType("CTC_STRUCTURE", 0) EXCEPT !.members = members]
UnionType(members) == [ScalarType("CTC_UNION", 0) EXCEPT !.members = members]
ArrayType(elem, length) ==
    [ScalarType("CTC_ARRAY", 0) EXCEPT !.elem = elem, !.length = length, !.lexpr = (length # -1)]
\* derived_from is elem; a function keeps its parameters in members
PointerType(elem) == [ScalarType("CTC_POINTER", 8) EXCEPT !.elem = elem]
FunctionType(ret, params, variadic) ==
    [ScalarType("CTC_FUNCTION", 0) EXCEPT !.elem = ret, !.members = params, !.variadic = variadic]

TypeTable ==
    [n \in {"char", "int", "long", "double", "P", "T", "S", "U",
            "int[1]", "int[2]", "int[]", "P[2]", "P[]"} |->
        CASE n = "char" -> ScalarType("CTC_CHAR", 1)
          [] n = "int" -> ScalarType("CTC_INT", 4)
          [] n = "long" -> ScalarType("CTC_LONG_INT", 8)
          [] n = "double" -> ScalarType("CTC_DOUBLE", 8)
          [] n = "P" -> StructType(<< <<"a", "int">>, <<"b", "int">> >>)
          [] n = "T" -> StructType(<< <<"a", "int">>, <<"b", "char">> >>)
          [] n = "S" -> StructType(<< <<"in", "T">>, <<"c", "char">> >>)
          [] n = "U" -> UnionType(<< <<"a", "int">>, <<"b", "char">> >>)
          [] n = "int[1]" -> ArrayType("int", 1)
          [] n = "int[2]" -> ArrayType("int", 2)
          [] n = "int[]" -> ArrayType("int", -1)
          [] n = "P[2]" -> ArrayType("P", 2)
          [] n = "P[]" -> ArrayType("P", -1)]

IsAggregateClass(c) == c \in {"CTC_STRUCTURE", "CTC_UNION", "CTC_ARRAY"}

AlignUp(offset, alignment) == offset + ((alignment - (offset % alignment)) % alignment)

Max2(a, b) == IF a >= b THEN a ELSE b

RECURSIVE type_alignment(_, _)
RECURSIVE MaxMemberAlignment(_, _, _)
MaxMemberAlignment(T, members, k) ==
    IF k > Len(members) THEN 1
    ELSE Max2(type_alignment(T, members[k][2]), MaxMemberAlignment(T, members, k + 1))

type_alignment(T, t) ==
    CASE T[t].class = "CTC_ARRAY" -> type_alignment(T, T[t].elem)
      [] T[t].class \in {"CTC_STRUCTURE", "CTC_UNION"} -> MaxMemberAlignment(T, T[t].members, 1)
      [] OTHER -> T[t].size

RECURSIVE type_size(_, _)
RECURSIVE MemberOffset(_, _, _)
\* offset of member k (1-based) of the struct or union t
MemberOffset(T, t, k) ==
    IF T[t].class = "CTC_UNION" \/ k = 1 THEN 0
    ELSE AlignUp(MemberOffset(T, t, k - 1) + type_size(T, T[t].members[k - 1][2]),
                 type_alignment(T, T[t].members[k][2]))

RECURSIVE MaxMemberSize(_, _, _)
MaxMemberSize(T, members, k) ==
    IF k > Len(members) THEN 0
    ELSE Max2(type_size(T, members[k][2]), MaxMemberSize(T, members, k + 1))

type_size(T, t) ==
    CASE T[t].class = "CTC_ARRAY" ->
            IF T[t].length = -1 THEN -1 ELSE T[t].length * type_size(T, T[t].elem)
      [] T[t].class = "CTC_STRUCTURE" ->
            LET n == Len(T[t].members) IN
            AlignUp(MemberOffset(T, t, n) + type_size(T, T[t].members[n][2]), type_alignment(T, t))
      [] T[t].class = "CTC_UNION" ->
            AlignUp(MaxMemberSize(T, T[t].members, 1), type_alignment(T, t))
      [] OTHER -> T[t].size

type_get_array_length(T, t) == T[t].length

type_is_integer(T, t) == T[t].class \in {"CTC_BOOL", "CTC_CHAR", "CTC_INT", "CTC_LONG_INT"}

type_is_arithmetic(T, t) == type_is_integer(T, t) \/ T[t].class = "CTC_DOUBLE"

type_is_scalar(T, t) == type_is_arithmetic(T, t) \/ T[t].class = "CTC_POINTER"

\* void, a struct or union without content and an array of unspecified length
\* are incomplete
type_is_complete(T, t) ==
    CASE T[t].class = "CTC_VOID" -> FALSE
      [] T[t].class \in {"CTC_STRUCTURE", "CTC_UNION"} -> T[t].members # <<>>
      [] T[t].class = "CTC_ARRAY" -> T[t].length # -1
      [] OTHER -> TRUE

type_is_object_type(T, t) == T[t].class # "CTC_FUNCTION" /\ type_is_complete(T, t)

type_is_compatible_ignore_qualifiers(T, t1, t2) ==
    [T[t1] EXCEPT !.qualifiers = {}] = [T[t2] EXCEPT !.qualifiers = {}]

\* type_get_struct_union_member_info: the index (0-based, -1: no such member)
\* and the offset of the member named id
MemberIndex(T, t, id) ==
    IF \E k \in 1..Len(T[t].members) : T[t].members[k][1] = id
    THEN (CHOOSE k \in 1..Len(T[t].members) : T[t].members[k][1] = id) - 1
    ELSE -1

get_aggregate_type_element_count(T, ct) ==
    IF ct = "NULL" THEN -1
    ELSE IF T[ct].class = "CTC_UNION" THEN 1
    ELSE IF T[ct].class = "CTC_STRUCTURE" THEN Len(T[ct].members)
    ELSE IF T[ct].class = "CTC_ARRAY" THEN type_get_array_length(T, ct)
    ELSE 0

\* the type of element ei (0-based) of the container cot (line 203)
ElementType(T, cot, ei) ==
    IF T[cot].class = "CTC_ARRAY" THEN T[cot].elem ELSE T[cot].members[ei + 1][2]

(***************************************************************************)
(* Initializers (syntax_component_t).  A node is a leaf (an expression of  *)
(* type ct) or an initializer list; desig is its designation in the list   *)
(* that holds it, a sequence of designators (<<>>: none).  A node is named *)
(* by its path from the declarator's initializer: <<i>> is initializer i   *)
(* of the list, <<i, j>> initializer j of the list nested at <<i>>.        *)
(***************************************************************************)
Leaf(desig, ct) == [kind |-> "leaf", desig |-> desig, ct |-> ct, inits |-> <<>>]
InitList(desig, inits) == [kind |-> "list", desig |-> desig, ct |-> "", inits |-> inits]

MemberDesignator(id) == [k |-> "SC_PRIMARY_EXPRESSION_IDENTIFIER", id |-> id, idx |-> 0]
IndexDesignator(value) == [k |-> "index", id |-> "", idx |-> value]

\* a syntax node as the parser leaves it: no target type, offset 0
Unelaborated == [offset |-> 0, ctype |-> "NULL"]

AddError(g, syn, msg) == [g EXCEPT !.errors = Append(@, [syn |-> syn, msg |-> msg])]

\* vector_peek / vector_pop on the two stacks; an empty stack peeks NULL (0)
PeekType(stack) == IF stack = <<>> THEN "NULL" ELSE stack[Len(stack)]
PeekIndex(stack) == IF stack = <<>> THEN 0 ELSE stack[Len(stack)]
Pop(stack) == IF stack = <<>> THEN stack ELSE SubSeq(stack, 1, Len(stack) - 1)

\* lines 116-188: a designation restarts from ct and descends per designator
RECURSIVE NavigateDesignators(_, _, _, _, _, _, _)
NavigateDesignators(T, desigs, k, nav, cots, coeis, offset) ==
    IF k > Len(desigs) THEN [err |-> "", cots |-> cots, coeis |-> coeis, offset |-> offset]
    ELSE LET desigr == desigs[k]
             cots1 == Append(cots, nav)
             fail(msg) == [err |-> msg, cots |-> cots1, coeis |-> coeis, offset |-> offset]
         IN IF desigr.k = "SC_PRIMARY_EXPRESSION_IDENTIFIER"
            THEN IF T[nav].class \notin {"CTC_STRUCTURE", "CTC_UNION"}
                 THEN fail("struct initialization designators may not be used to initialize non-struct and non-union types")
                 ELSE LET midx == MemberIndex(T, nav, desigr.id) IN
                      IF midx = -1
                      THEN fail("struct initialization designators must specify a valid member of the struct or union it is initializing")
                      ELSE NavigateDesignators(T, desigs, k + 1, T[nav].members[midx + 1][2], cots1,
                                               Append(coeis, midx),
                                               offset + MemberOffset(T, nav, midx + 1))
            ELSE IF T[nav].class # "CTC_ARRAY"
                 THEN fail("array initialization designators may not be used to initialize non-array types")
                 ELSE IF desigr.idx < 0
                 THEN fail("array initialization designators must have a non-negative index")
                 ELSE NavigateDesignators(T, desigs, k + 1, T[nav].elem, cots1,
                                          Append(coeis, desigr.idx),
                                          offset + type_size(T, T[nav].elem) * desigr.idx)

\* lines 263-289: an expression initializing an aggregate descends to its first scalar
RECURSIVE DescendToScalar(_, _, _, _, _)
DescendToScalar(T, cots, coeis, ei, et) ==
    IF IsAggregateClass(T[et].class)
    THEN DescendToScalar(T, Append(cots, et), Append(coeis, ei), 0, ElementType(T, et, 0))
    ELSE [cots |-> cots, coeis |-> coeis, ei |-> ei, et |-> et]

\* lines 295-321: step to the next element; cot is the top of cot_stack and is
\* ct exactly when the stack holds one type.  The result is the locals of the
\* loop but for the offset, which the caller sets.
RECURSIVE AdvanceElement(_, _, _, _, _, _)
AdvanceElement(T, cots, coeis, ei0, ml, last) ==
    LET ei == ei0 + 1
        coeis1 == Append(Pop(coeis), ei)
        cot == PeekType(cots)
        count == get_aggregate_type_element_count(T, cot)
    IN IF count = -1
       THEN [cots |-> cots, coeis |-> coeis1, offset |-> 0,
             ml |-> IF Len(cots) = 1 THEN ei ELSE ml]
       ELSE IF ei >= count
       THEN AdvanceElement(T, Pop(cots), Pop(coeis1), PeekIndex(Pop(coeis1)), ml, last)
       ELSE [cots |-> cots, coeis |-> coeis1, offset |-> 0,
             ml |-> IF last /\ Len(cots) # 1 THEN ml + 1 ELSE ml]

\* lines 324-328
FixArrayLength(g, ct, ml) ==
    IF g.types[ct].class = "CTC_ARRAY" /\ ~g.types[ct].lexpr
    THEN [g EXCEPT !.types[ct].length = ml]
    ELSE g

\* g is [sem, errors, types]; loc is [cots, coeis, offset, ml], the locals that
\* live across the iterations of the loop of line 111
RECURSIVE add_initializer_list_semantics(_, _, _, _)
RECURSIVE ElaborateFrom(_, _, _, _, _, _)

\* lines 293-321: the initializer has got its semantics (g2); d is the place
\* [cots, coeis, ei, et] it was given
StepOver(g2, d, offset, ml, last) ==
    [ctl |-> "next", g |-> g2,
     loc |-> [AdvanceElement(g2.types, d.cots, d.coeis, d.ei, ml, last)
              EXCEPT !.offset = offset + type_size(g2.types, d.et)]]

\* lines 224-291, for the initializer init at ipath, initializing et at offset
PlaceInitializer(g1, init, path, ipath, nav, ei, et, offset, ml, last) ==
    IF init.kind = "list"
    THEN StepOver(add_initializer_list_semantics(g1, init, et, path),
                  [cots |-> nav.cots, coeis |-> nav.coeis, ei |-> ei, et |-> et],
                  offset, ml, last)
    ELSE StepOver([g1 EXCEPT !.sem[ipath].ctype =
                                DescendToScalar(g1.types, nav.cots, nav.coeis, ei, et).et],
                  DescendToScalar(g1.types, nav.cots, nav.coeis, ei, et),
                  offset, ml, last)

\* lines 200-232, the current object cot having element ei of type et
ElaborateElement(g, item, path, nav, ei, et, offset, loc, last) ==
    IF ~type_is_object_type(g.types, et) /\ g.types[et].class # "CTC_ARRAY"
    THEN [ctl |-> "return",
          g |-> AddError(g, path,
                  "initialization target must be an object type or an array of unknown size that is not variable-length"),
          loc |-> loc]
    ELSE \* lines 227-232: a scalar's initializer may be enclosed in braces
         IF item.kind = "list" /\ type_is_scalar(g.types, et)
         THEN PlaceInitializer([g EXCEPT !.sem[path].offset = offset], item.inits[1], path,
                               Append(path, 1), nav, ei, et, offset, loc.ml, last)
         ELSE PlaceInitializer([g EXCEPT !.sem[path].offset = offset], item, path,
                               path, nav, ei, et, offset, loc.ml, last)

\* lines 190-222, nav being the stacks and the offset after the designation
ElaborateAt(g, item, path, nav, loc, last) ==
    IF nav.err # ""
    THEN [ctl |-> "return", g |-> AddError(g, path, nav.err), loc |-> loc]
    ELSE IF PeekType(nav.cots) = "NULL"
    THEN [ctl |-> "break",
          g |-> AddError([g EXCEPT !.sem[path].offset = -1], path,
                  "this initializer and any after it would write outside the object being initialized"),
          loc |-> loc]
    ELSE ElaborateElement(g, item, path, nav, PeekIndex(nav.coeis),
             ElementType(g.types, PeekType(nav.cots), PeekIndex(nav.coeis)),
             AlignUp(nav.offset,
                     type_alignment(g.types,
                         ElementType(g.types, PeekType(nav.cots), PeekIndex(nav.coeis)))),
             loc, last)

\* ElaborateOne with the offset reset for every initializer, designated or not
ElaborateOne_resets_offset(g, syn, ct, prefix, i, loc) ==
    ElaborateAt(g, syn.inits[i], Append(prefix, i),
                IF syn.inits[i].desig # <<>>
                THEN NavigateDesignators(g.types, syn.inits[i].desig, 1, ct, <<>>, <<>>, 0)
                ELSE [err |-> "", cots |-> loc.cots, coeis |-> loc.coeis, offset |-> 0],
                loc, i = Len(syn.inits))

\* one iteration of the loop of line 111, for initializer i of the list syn
ElaborateOne(g, syn, ct, prefix, i, loc) ==
    ElaborateAt(g, syn.inits[i], Append(prefix, i),
                IF syn.inits[i].desig # <<>>
                THEN NavigateDesignators(g.types, syn.inits[i].desig, 1, ct, <<>>, <<>>, 0)
                ELSE [err |-> "", cots |-> loc.cots, coeis |-> loc.coeis, offset |-> loc.offset],
                loc, i = Len(syn.inits))

\* what the loop does after iteration i: return, break or go on
AfterOne(r, syn, ct, prefix, i) ==
    CASE r.ctl = "return" -> r.g
      [] r.ctl = "break" -> FixArrayLength(r.g, ct, r.loc.ml)
      [] OTHER -> ElaborateFrom(r.g, syn, ct, prefix, i + 1, r.loc)

ElaborateFrom(g, syn, ct, prefix, i, loc) ==
    IF i > Len(syn.inits) THEN FixArrayLength(g, ct, loc.ml)
    ELSE AfterOne(ElaborateOne(g, syn, ct, prefix, i, loc), syn, ct, prefix, i)

add_initializer_list_semantics(g, syn, ct, prefix) ==
    ElaborateFrom(g, syn, ct, prefix, 1,
                  [cots |-> <<ct>>, coeis |-> <<0>>, offset |-> 0, ml |-> 1])

\* the node at a path below the node syn
RECURSIVE NodeAt(_, _)
NodeAt(syn, path) ==
    IF path = <<>> THEN syn ELSE NodeAt(syn.inits[Head(path)], Tail(path))

RECURSIVE PathsOf(_, _)
PathsOf(syn, prefix) ==
    {prefix} \cup UNION {PathsOf(syn.inits[i], Append(prefix, i)) : i \in 1..Len(syn.inits)}

\* constexpr_evaluate of an integer constant: the bytes and the type of the expression
constexpr_evaluate(syn) == [type |-> "CE_INTEGER", ct |-> syn.ct]

NoByte == << <<>>, -1 >>

\* lines 1100-1172; e is [image, writes].  A byte outside the image is logged in
\* writes and left out of image.
RECURSIVE analyze_static_initializer_after(_, _, _, _, _, _)
RECURSIVE EmitFrom(_, _, _, _, _, _, _)
analyze_static_initializer_after(e, T, S, syn, path, base) ==
    IF syn.kind # "list"
    THEN LET ce == constexpr_evaluate(syn)
             n == type_size(T, ce.ct)
         IN [image |-> [b \in DOMAIN e.image |->
                          IF base <= b /\ b < base + n THEN <<path, b - base>> ELSE e.image[b]],
             writes |-> Append(e.writes, [path |-> path, at |-> base, n |-> n])]
    ELSE EmitFrom(e, T, S, syn, path, base, 1)

EmitFrom(e, T, S, syn, path, base, i) ==
    IF i > Len(syn.inits) THEN e
    ELSE LET ipath == Append(path, i) IN
         IF S[ipath].offset = -1
         THEN EmitFrom(e, T, S, syn, path, base, i + 1)
         ELSE EmitFrom(analyze_static_initializer_after(e, T, S, syn.inits[i], ipath,
                                                        base + S[ipath].offset),
                       T, S, syn, path, base, i + 1)

(***************************************************************************)
(* SpecInit: analyze_init_declarator_after on a declaration of static      *)
(* storage duration whose initializer is made of integer constants.        *)
(***************************************************************************)
MaxInits == 3       \* initializers of the declarator's list
MaxNested == 2      \* initializers of a nested list

LeafTypes == {"int", "long"}
DesignatedIndexes == {0, 1}
ScalarTargets == {"char", "int", "long", "double"}
AggregateTargets == {"P", "S", "U", "int[1]", "int[2]", "int[]", "P[2]", "P[]"}

\* the initializers a list of the model is made of, all leaves of type ct
Items(ct) ==
    {Leaf(<<>>, ct), Leaf(<<MemberDesignator("b")>>, ct)}
    \cup {Leaf(<<IndexDesignator(v)>>, ct) : v \in DesignatedIndexes}
    \cup {InitList(<<>>, [j \in 1..n |-> Leaf(<<>>, ct)]) : n \in 1..MaxNested}

Decls ==
    UNION {
        {[target |-> t, init |-> Leaf(<<>>, ct)] : t \in ScalarTargets}
        \cup {[target |-> t, init |-> InitList(<<>>, <<Leaf(<<>>, ct)>>)] : t \in ScalarTargets}
        \cup {[target |-> t, init |-> InitList(<<>>, l)] :
                t \in AggregateTargets, l \in SeqsUpTo(Items(ct), MaxInits) \ {<<>>}}
        : ct \in LeafTypes}

\* lines 2600-2609: the initializer the declarator goes on with
InitPath(T, d) ==
    IF /\ d.init.kind = "list"
       /\ Len(d.init.inits) = 1
       /\ type_is_scalar(T, d.target)
       /\ d.init.inits[1].kind # "list"
       /\ type_is_scalar(T, d.init.inits[1].ct)
    THEN <<1>> ELSE <<>>

InitInit ==
    /\ BackendIdle
    /\ ExprIdle
    /\ ipc = "declared"
    /\ decl \in Decls
    /\ types = TypeTable
    /\ sem = [path \in PathsOf(decl.init, <<>>) |-> Unelaborated]
    /\ errors = <<>>
    /\ image = <<>>
    /\ writes = <<>>

\* lines 2596-2621.  check_initializations reports nothing here: every leaf and
\* every scalar target of the model is arithmetic.
ElaborateInitializer ==
    /\ ipc = "declared"
    /\ LET ipath == InitPath(types, decl)
           init == NodeAt(decl.init, ipath)
           g == IF init.kind = "list"
                THEN add_initializer_list_semantics(
                         [sem |-> sem, errors |-> errors, types |-> types],
                         init, decl.target, ipath)
                ELSE [sem |-> [sem EXCEPT ![ipath] = [offset |-> 0, ctype |-> decl.target]],
                      errors |-> errors, types |-> types]
       IN /\ sem' = g.sem
          /\ errors' = g.errors
          /\ types' = g.types
    /\ ipc' = "elaborated"
    /\ UNCHANGED <<backendVars, exprVars, decl, image, writes>>

\* lines 2623-2628, the symbol being of static storage duration
EmitStaticImage ==
    /\ ipc = "elaborated"
    /\ LET ipath == InitPath(types, decl)
           size == type_size(types, decl.target)
           e == analyze_static_initializer_after(
                    [image |-> [b \in 0..(size - 1) |-> NoByte], writes |-> <<>>],
                    types, sem, NodeAt(decl.init, ipath), ipath, 0)
       IN /\ image' = e.image
          /\ writes' = e.writes
    /\ ipc' = "done"
    /\ UNCHANGED <<backendVars, exprVars, decl, types, sem, errors>>

NextInit == ElaborateInitializer \/ EmitStaticImage

SpecInit == InitInit /\ [][NextInit]_vars

(***************************************************************************)
(* What an initializer list means (ISO C99 6.7.8 (17)-(22)), stated on     *)
(* subobject paths and independent of the elaborator above: <<k, ...>> is  *)
(* element or member k (from 0) of the object, then the rest inside it.    *)
(* The claims on initializers compare the elaborator against this.         *)
(***************************************************************************)
RECURSIVE SubobjectType(_, _, _)
SubobjectType(T, ct, p) ==
    IF p = <<>> THEN ct ELSE SubobjectType(T, ElementType(T, ct, Head(p)), Tail(p))

RECURSIVE SubobjectOffset(_, _, _)
SubobjectOffset(T, ct, p) ==
    IF p = <<>> THEN 0
    ELSE (IF T[ct].class = "CTC_ARRAY" THEN Head(p) * type_size(T, T[ct].elem)
          ELSE MemberOffset(T, ct, Head(p) + 1))
         + SubobjectOffset(T, ElementType(T, ct, Head(p)), Tail(p))

RECURSIVE FirstScalar(_, _, _)
FirstScalar(T, ct, p) ==
    IF IsAggregateClass(T[SubobjectType(T, ct, p)].class)
    THEN FirstScalar(T, ct, Append(p, 0)) ELSE p

NoSubobject == [ok |-> FALSE, p |-> <<>>]

\* the subobject that follows p in declaration order; none when ct is used up
RECURSIVE NextSubobject(_, _, _)
NextSubobject(T, ct, p) ==
    IF p = <<>> THEN NoSubobject
    ELSE LET parent == SubSeq(p, 1, Len(p) - 1)
             pt == SubobjectType(T, ct, parent)
             k == p[Len(p)] + 1
             more == CASE T[pt].class = "CTC_ARRAY" -> T[pt].length = -1 \/ k < T[pt].length
                       [] T[pt].class = "CTC_STRUCTURE" -> k < Len(T[pt].members)
                       [] OTHER -> FALSE
         IN IF more THEN [ok |-> TRUE, p |-> Append(parent, k)]
            ELSE NextSubobject(T, ct, parent)

\* the subobject a designation names, if it names one
RECURSIVE DesignatedSubobject(_, _, _, _)
DesignatedSubobject(T, nav, desigs, p) ==
    IF desigs = <<>> THEN [ok |-> TRUE, p |-> p]
    ELSE LET d == Head(desigs) IN
         IF d.k = "SC_PRIMARY_EXPRESSION_IDENTIFIER"
         THEN IF T[nav].class \in {"CTC_STRUCTURE", "CTC_UNION"} /\ MemberIndex(T, nav, d.id) # -1
              THEN LET k == MemberIndex(T, nav, d.id) IN
                   DesignatedSubobject(T, ElementType(T, nav, k), Tail(desigs), Append(p, k))
              ELSE NoSubobject
         ELSE IF /\ T[nav].class = "CTC_ARRAY"
                 /\ d.idx >= 0
                 /\ (T[nav].length = -1 \/ d.idx < T[nav].length)
              THEN DesignatedSubobject(T, T[nav].elem, Tail(desigs), Append(p, d.idx))
              ELSE NoSubobject

\* the subobject of ct that each initializer of the list initializes, in order
RECURSIVE SubobjectsFrom(_, _, _, _, _)
SubobjectsFrom(T, ct, inits, i, cursor) ==
    IF i > Len(inits) THEN <<>>
    ELSE LET item == inits[i]
             c == IF item.desig # <<>> THEN DesignatedSubobject(T, ct, item.desig, <<>>)
                  ELSE cursor
             sub == IF ~c.ok THEN NoSubobject
                    ELSE IF item.kind = "leaf" THEN [ok |-> TRUE, p |-> FirstScalar(T, ct, c.p)]
                    ELSE c
             next == IF sub.ok THEN NextSubobject(T, ct, sub.p) ELSE NoSubobject
         IN <<sub>> \o SubobjectsFrom(T, ct, inits, i + 1, next)

Subobjects(T, ct, inits) == SubobjectsFrom(T, ct, inits, 1, [ok |-> TRUE, p |-> <<0>>])

\* the (target type, offset in the object of its list) a leaf initializer should
\* carry; paths are relative to the list syn, which initializes an object of type ct
RECURSIVE ExpectedSemantics(_, _, _, _)
ExpectedSemantics(T, ct, syn, path) ==
    LET sub == Subobjects(T, ct, syn.inits)[Head(path)]
        st == SubobjectType(T, ct, sub.p)
    IN IF ~sub.ok THEN [ok |-> FALSE, offset |-> 0, ctype |-> "NULL"]
       ELSE IF Len(path) = 1
       THEN [ok |-> TRUE, offset |-> SubobjectOffset(T, ct, sub.p), ctype |-> st]
       ELSE IF type_is_scalar(T, st)
       THEN [ok |-> Tail(path) = <<1>>, offset |-> 0, ctype |-> st]
       ELSE ExpectedSemantics(T, st, syn.inits[Head(path)], Tail(path))

LeafPaths(syn) == {p \in PathsOf(syn, <<>>) : NodeAt(syn, p).kind = "leaf"}

\* the leaves the elaborator reached without an error
ReachedLeaves ==
    {p \in LeafPaths(decl.init) : sem[p].ctype # "NULL" /\ sem[p].offset # -1}

ListTarget == decl.target \in AggregateTargets

(***************************************************************************)
(* C4: every leaf of a static-storage object that folds to an integer      *)
(* constant is written as exactly size_of(target type of the leaf) bytes   *)
(* at base + recorded offset, whatever the type of the expression is.      *)
(* (Stated as the claim has it; the emitter violates it.)                  *)
(***************************************************************************)
RECURSIVE RecordedBase(_)
RecordedBase(path) ==
    IF Len(path) <= Len(InitPath(TypeTable, decl)) THEN 0
    ELSE RecordedBase(SubSeq(path, 1, Len(path) - 1)) + sem[path].offset

C4_WritesSizeOfTarget ==
    ipc = "done" =>
        \A k \in 1..Len(writes) :
            sem[writes[k].path].ctype # "NULL" =>
                /\ writes[k].n = type_size(types, sem[writes[k].path].ctype)
                /\ writes[k].at = RecordedBase(writes[k].path)

(***************************************************************************)
(* C5: every leaf initializer reached without error carries the type and   *)
(* the byte offset, within the object its list initializes, of the         *)
(* subobject C gives it to initialize: padding after a finished nested     *)
(* aggregate is skipped, and {.b = 7} on struct {int a; int b;} records 4. *)
(* (Stated as the claim has it; the elaborator violates it.)               *)
(***************************************************************************)
C5_RecordedTypeAndOffset ==
    (ipc \in {"elaborated", "done"} /\ ListTarget) =>
        \A p \in ReachedLeaves :
            LET x == ExpectedSemantics(TypeTable, decl.target, decl.init, p) IN
            x.ok => sem[p] = [offset |-> x.offset, ctype |-> x.ctype]

(***************************************************************************)
(* C6: the length fixed for an array of unspecified length is the running  *)
(* maximum of (element index + 1) over all the initializers of the list,   *)
(* so {[5] = 1, [1] = 2} fixes 6.                                          *)
(* (Stated as the claim has it; the elaborator violates it.)               *)
(***************************************************************************)
MaxOf(S) == CHOOSE x \in S : \A y \in S : y <= x

C6_LengthIsRunningMaximum ==
    (/\ ipc \in {"elaborated", "done"}
     /\ ListTarget
     /\ TypeTable[decl.target].class = "CTC_ARRAY"
     /\ TypeTable[decl.target].length = -1
     /\ errors = <<>>) =>
        LET subs == Subobjects(TypeTable, decl.target, decl.init.inits) IN
        types[decl.target].length = MaxOf({subs[i].p[1] + 1 : i \in 1..Len(subs)})

(***************************************************************************)
(* C7: when an initializer would write past the object, exactly one error  *)
(* is reported for its list, the initializer is marked with offset -1, and *)
(* neither it nor any initializer after it in the same list is written     *)
(* into the static image.                                                  *)
(* (Stated as the claim has it; the emitter violates it.)                  *)
(***************************************************************************)
IsPrefix(p, q) == Len(p) <= Len(q) /\ SubSeq(q, 1, Len(p)) = p

\* the initializers marked as writing past the object
OutOfBounds == {p \in DOMAIN sem : sem[p].offset = -1}

C7_NothingWrittenPastTheObject ==
    ipc = "done" =>
        \A p \in OutOfBounds :
            LET list == SubSeq(p, 1, Len(p) - 1) IN
            /\ Cardinality({k \in 1..Len(errors) :
                    /\ Len(errors[k].syn) = Len(p)
                    /\ IsPrefix(list, errors[k].syn)}) = 1
            /\ \A k \in 1..Len(writes) :
                    ~(/\ IsPrefix(list, writes[k].path)
                      /\ Len(writes[k].path) >= Len(p)
                      /\ writes[k].path[Len(p)] >= p[Len(p)])

(***************************************************************************)
(* The analyzer: the types of expressions.  A qualified type is named by   *)
(* its qualifiers and the unqualified name, a pointer by the name of what  *)
(* it points to and "*".                                                   *)
(***************************************************************************)
TypeQualifiers ==
    [q \in {"", "const ", "volatile ", "const volatile "} |->
        CASE q = "" -> {}
          [] q = "const " -> {"TQ_B_CONST"}
          [] q = "volatile " -> {"TQ_B_VOLATILE"}
          [] q = "const volatile " -> {"TQ_B_CONST", "TQ_B_VOLATILE"}]

\* I is a struct declared without content
UnqualifiedTypes ==
    [n \in {"_Bool", "int", "double", "void", "P", "U", "I"} |->
        CASE n = "_Bool" -> ScalarType("CTC_BOOL", 1)
          [] n = "int" -> ScalarType("CTC_INT", 4)
          [] n = "double" -> ScalarType("CTC_DOUBLE", 8)
          [] n = "void" -> ScalarType("CTC_VOID", 0)
          [] n = "P" -> StructType(<< <<"a", "int">>, <<"b", "int">> >>)
          [] n = "U" -> UnionType(<< <<"a", "int">>, <<"b", "double">> >>)
          [] n = "I" -> StructType(<<>>)]

NamedTypes ==
    {[name |-> q \o n, type |-> [UnqualifiedTypes[n] EXCEPT !.qualifiers = TypeQualifiers[q]]]
        : q \in DOMAIN TypeQualifiers, n \in DOMAIN UnqualifiedTypes}
    \cup {[name |-> q \o n \o "*", type |-> PointerType(q \o n)]
            : q \in DOMAIN TypeQualifiers, n \in DOMAIN UnqualifiedTypes}
    \cup {[name |-> "error", type |-> ScalarType("CTC_ERROR", 0)],
          [name |-> "int(int)", type |-> FunctionType("int", << <<"", "int">> >>, FALSE)],
          [name |-> "int(int,...)", type |-> FunctionType("int", << <<"", "int">> >>, TRUE)],
          [name |-> "int(int)*", type |-> PointerType("int(int)")],
          [name |-> "int(int,...)*", type |-> PointerType("int(int,...)")]}

ExprTypes ==
    [n \in {x.name : x \in NamedTypes} |-> (CHOOSE x \in NamedTypes : x.name = n).type]

(***************************************************************************)
(* Expressions (syntax_component_t): [type, ctype, tn, value, operand],    *)
(* tn the type name of a cast, operand its operand.                        *)
(***************************************************************************)
Identifier(ct) ==
    [type |-> "SC_PRIMARY_EXPRESSION_IDENTIFIER", ctype |-> ct, tn |-> "", value |-> 0, operand |-> <<>>]
IntegerConstant(v) ==
    [type |-> "SC_INTEGER_CONSTANT", ctype |-> "int", tn |-> "", value |-> v, operand |-> <<>>]
FloatingConstant(v) ==
    [type |-> "SC_FLOATING_CONSTANT", ctype |-> "double", tn |-> "", value |-> v, operand |-> <<>>]
CastExpression(tn, operand) ==
    [type |-> "SC_CAST_EXPRESSION", ctype |-> tn, tn |-> tn, value |-> 0, operand |-> <<operand>>]

SubtractionExpression(lhs, rhs) ==
    [type |-> "SC_SUBTRACTION_EXPRESSION", ctype |-> "int", tn |-> "", value |-> 0,
     operand |-> <<lhs, rhs>>]

\* an integer constant, a difference of integer constant expressions and a
\* cast of one to int are integer constant expressions; an identifier, a
\* floating constant and a cast to a pointer type are not
RECURSIVE constexpr_evaluate_integer(_)
constexpr_evaluate_integer(e) ==
    CASE e.type = "SC_INTEGER_CONSTANT" -> [succeeded |-> TRUE, value |-> e.value]
      [] e.type = "SC_SUBTRACTION_EXPRESSION" ->
            [succeeded |-> /\ constexpr_evaluate_integer(e.operand[1]).succeeded
                           /\ constexpr_evaluate_integer(e.operand[2]).succeeded,
             value |-> constexpr_evaluate_integer(e.operand[1]).value
                       - constexpr_evaluate_integer(e.operand[2]).value]
      [] e.type = "SC_CAST_EXPRESSION" /\ e.tn = "int" -> constexpr_evaluate_integer(e.operand[1])
      [] OTHER -> [succeeded |-> FALSE, value |-> 0]

\* lines 385-425; lines 389-412 pass the type name "void*" only: the one
\* specifier void and an abstract declarator of one pointer without qualifiers
syntax_is_null_ptr_constant(e) ==
    IF e.type = "SC_CAST_EXPRESSION" /\ e.tn # "void*" THEN FALSE
    ELSE LET ce == constexpr_evaluate_integer(
                       IF e.type = "SC_CAST_EXPRESSION" THEN e.operand[1] ELSE e)
         IN ce.succeeded /\ ce.value = 0

\* (tlhs->derived_from->qualifiers & trhs->derived_from->qualifiers)
\*     == trhs->derived_from->qualifiers
KeepsQualifiers(T, tlhs, trhs) ==
    (T[T[tlhs].elem].qualifiers \cap T[T[trhs].elem].qualifiers) = T[T[trhs].elem].qualifiers

\* can_assign with the qualifier test of the first branch of condition 4 left out
can_assign_void_pointer_drops_qualifiers(T, tlhs, trhs, rhs) ==
    \/ type_is_arithmetic(T, tlhs) /\ type_is_arithmetic(T, trhs)
    \/ /\ T[tlhs].class \in {"CTC_STRUCTURE", "CTC_UNION"}
       /\ type_is_compatible_ignore_qualifiers(T, tlhs, trhs)
    \/ /\ T[tlhs].class = "CTC_POINTER" /\ T[trhs].class = "CTC_POINTER"
       /\ type_is_compatible_ignore_qualifiers(T, T[tlhs].elem, T[trhs].elem)
       /\ KeepsQualifiers(T, tlhs, trhs)
    \/ /\ T[tlhs].class = "CTC_POINTER"
       /\ type_is_object_type(T, T[tlhs].elem) \/ ~type_is_complete(T, T[tlhs].elem)
       /\ T[trhs].class = "CTC_POINTER" /\ T[T[trhs].elem].class = "CTC_VOID"
    \/ /\ T[trhs].class = "CTC_POINTER"
       /\ type_is_object_type(T, T[trhs].elem) \/ ~type_is_complete(T, T[trhs].elem)
       /\ T[tlhs].class = "CTC_POINTER" /\ T[T[tlhs].elem].class = "CTC_VOID"
       /\ KeepsQualifiers(T, tlhs, trhs)
    \/ T[tlhs].class = "CTC_POINTER" /\ syntax_is_null_ptr_constant(rhs)
    \/ T[tlhs].class = "CTC_BOOL" /\ T[trhs].class = "CTC_POINTER"

\* lines 677-713: every branch of the chain sets pass, so the result is the
\* disjunction of the branch conditions
can_assign(T, tlhs, trhs, rhs) ==
    \/ type_is_arithmetic(T, tlhs) /\ type_is_arithmetic(T, trhs)
    \/ /\ T[tlhs].class \in {"CTC_STRUCTURE", "CTC_UNION"}
       /\ type_is_compatible_ignore_qualifiers(T, tlhs, trhs)
    \/ /\ T[tlhs].class = "CTC_POINTER" /\ T[trhs].class = "CTC_POINTER"
       /\ type_is_compatible_ignore_qualifiers(T, T[tlhs].elem, T[trhs].elem)
       /\ KeepsQualifiers(T, tlhs, trhs)
    \/ /\ T[tlhs].class = "CTC_POINTER"
       /\ type_is_object_type(T, T[tlhs].elem) \/ ~type_is_complete(T, T[tlhs].elem)
       /\ T[trhs].class = "CTC_POINTER" /\ T[T[trhs].elem].class = "CTC_VOID"
       /\ KeepsQualifiers(T, tlhs, trhs)
    \/ /\ T[trhs].class = "CTC_POINTER"
       /\ type_is_object_type(T, T[trhs].elem) \/ ~type_is_complete(T, T[trhs].elem)
       /\ T[tlhs].class = "CTC_POINTER" /\ T[T[tlhs].elem].class = "CTC_VOID"
       /\ KeepsQualifiers(T, tlhs, trhs)
    \/ T[tlhs].class = "CTC_POINTER" /\ syntax_is_null_ptr_constant(rhs)
    \/ T[tlhs].class = "CTC_BOOL" /\ T[trhs].class = "CTC_POINTER"

(***************************************************************************)
(* SpecAssign: can_assign applied to the types of a left operand and to a  *)
(* right operand expression.                                               *)
(***************************************************************************)
\* arithmetic types, _Bool, structs and unions, an incomplete struct, void,
\* with and without qualifiers, and the pointers to them
AssignTypes ==
    {q \o n : q \in DOMAIN TypeQualifiers, n \in DOMAIN UnqualifiedTypes}
    \cup {q \o n \o "*" : q \in DOMAIN TypeQualifiers, n \in DOMAIN UnqualifiedTypes}

AssignOperands ==
    {Identifier(t) : t \in AssignTypes \ {"void"}}
    \cup {IntegerConstant(0), IntegerConstant(1), FloatingConstant(0)}
    \cup {CastExpression(tn, IntegerConstant(v)) : tn \in {"void*", "const void*", "volatile void*", "int*"}, v \in {0, 1}}

InitAssign ==
    /\ BackendIdle
    /\ InitIdle
    /\ expr = [pc |-> "idle"]
    /\ \E tlhs \in AssignTypes, rhs \in AssignOperands :
          assign = [pc |-> "call", tlhs |-> tlhs, rhs |-> rhs, pass |-> FALSE]

CanAssign ==
    /\ assign.pc = "call"
    /\ assign' = [assign EXCEPT
                     !.pc = "returned",
                     !.pass = can_assign(ExprTypes, assign.tlhs, assign.rhs.ctype, assign.rhs)]
    /\ UNCHANGED <<backendVars, initVars, expr>>

SpecAssign == InitAssign /\ [][CanAssign]_vars

(***************************************************************************)
(* ISO C99 6.5.16.1 (1), stated on the type descriptors.                   *)
(***************************************************************************)
ClassOf(t) == ExprTypes[t].class
IsPointer(t) == ClassOf(t) = "CTC_POINTER"
Pointee(t) == ExprTypes[t].elem
Unqualified(t) == [ExprTypes[t] EXCEPT !.qualifiers = {}]
IsArithmetic(t) == ClassOf(t) \in {"CTC_BOOL", "CTC_CHAR", "CTC_INT", "CTC_LONG_INT", "CTC_DOUBLE"}
\* t points to an object type or to an incomplete type: not to a function
PointsToObjectOrIncomplete(t) == IsPointer(t) /\ ClassOf(Pointee(t)) # "CTC_FUNCTION"
PointsToVoid(t) == IsPointer(t) /\ ClassOf(Pointee(t)) = "CTC_VOID"
\* the type l points to has every qualifier of the type r points to
HasAllQualifiers(l, r) == ExprTypes[Pointee(r)].qualifiers \subseteq ExprTypes[Pointee(l)].qualifiers
\* the constant 0, or the constant 0 cast to void *
IsNullPointerConstant(e) ==
    e \in {IntegerConstant(0), CastExpression("void*", IntegerConstant(0))}

BothArithmetic(l, r) == IsArithmetic(l) /\ IsArithmetic(r)
CompatibleStructOrUnion(l, r) ==
    ClassOf(l) \in {"CTC_STRUCTURE", "CTC_UNION"} /\ Unqualified(l) = Unqualified(r)
PointersToCompatible(l, r) ==
    IsPointer(l) /\ IsPointer(r) /\ Unqualified(Pointee(l)) = Unqualified(Pointee(r))
PointerAndVoidPointer(l, r) ==
    \/ PointsToObjectOrIncomplete(l) /\ PointsToVoid(r)
    \/ PointsToObjectOrIncomplete(r) /\ PointsToVoid(l)
PointerFromNull(l, e) == IsPointer(l) /\ IsNullPointerConstant(e)
BoolFromPointer(l, r) == ClassOf(l) = "CTC_BOOL" /\ IsPointer(r)

Assignable(l, e) ==
    \/ BothArithmetic(l, e.ctype)
    \/ CompatibleStructOrUnion(l, e.ctype)
    \/ PointersToCompatible(l, e.ctype) /\ HasAllQualifiers(l, e.ctype)
    \/ PointerAndVoidPointer(l, e.ctype) /\ HasAllQualifiers(l, e.ctype)
    \/ PointerFromNull(l, e)
    \/ BoolFromPointer(l, e.ctype)

Decorated(ctype, diags) == [ctype |-> ctype, diags |-> diags]

error_init(syn, msg) == [syn |-> syn, msg |-> msg]

\* type_copy with qualifiers = 0: the node is not in an lvalue context
Unqualify(T, t) == CHOOSE n \in DOMAIN T : T[n] = [T[t] EXCEPT !.qualifiers = {}]

\* lines 365-383, arrays apart: a function becomes a pointer to it
expression_type_copy(T, ct) ==
    IF T[ct].class = "CTC_FUNCTION" THEN CHOOSE n \in DOMAIN T : T[n] = PointerType(ct) ELSE ct

usual_arithmetic_conversions_result_type(T, tlhs, trhs) ==
    IF "CTC_DOUBLE" \in {T[tlhs].class, T[trhs].class} THEN "double" ELSE "int"

\* lines 2160-2194 and 2133-2158; sy is the type of the symbol or "NULL"
analyze_identifier_after(T, syn, sy) ==
    IF sy = "NULL"
    THEN Decorated("error", <<error_init(syn, "symbol is not defined in the given context")>>)
    ELSE Decorated(Unqualify(T, expression_type_copy(T, sy)), <<>>)

\* lines 1279-1299
analyze_dereference_expression_after(T, syn, otype) ==
    IF T[otype].class # "CTC_POINTER"
    THEN Decorated("error", <<error_init(syn, "dereference operand must be of pointer type")>>)
    ELSE Decorated(Unqualify(T, expression_type_copy(T, T[otype].elem)), <<>>)

\* lines 1577-1597
analyze_addition_expression_after(T, syn, tlhs, trhs) ==
    IF type_is_arithmetic(T, tlhs) /\ type_is_arithmetic(T, trhs)
    THEN Decorated(usual_arithmetic_conversions_result_type(T, tlhs, trhs), <<>>)
    ELSE IF /\ type_is_integer(T, tlhs)
            /\ T[trhs].class = "CTC_POINTER" /\ type_is_object_type(T, T[trhs].elem)
    THEN Decorated(trhs, <<>>)
    ELSE IF /\ T[tlhs].class = "CTC_POINTER" /\ type_is_object_type(T, T[tlhs].elem)
            /\ type_is_integer(T, trhs)
    THEN Decorated(tlhs, <<>>)
    ELSE Decorated("error", <<error_init(syn, "invalid operands of addition expression")>>)

\* lines 1929-1950 with 1870-1879, the left operand being a modifiable lvalue
analyze_assignment_expression_after(T, syn, lhs, rhs) ==
    IF ~can_assign(T, lhs.ctype, rhs.ctype, rhs)
    THEN Decorated("error", <<error_init(syn, "simple assignment operation is invalid")>>)
    ELSE Decorated(Unqualify(T, lhs.ctype), <<>>)

\* lines 717-734: the diagnostic about the called expression, if any
CalledTypeErrors(T, syn, called_type) ==
    IF T[called_type].class = "CTC_ERROR" THEN <<>>
    ELSE IF T[called_type].class # "CTC_POINTER" \/ T[T[called_type].elem].class # "CTC_FUNCTION"
    THEN <<error_init(syn, "calling expression in function call must be of function or function pointer type")>>
    ELSE IF /\ T[T[T[called_type].elem].elem].class # "CTC_VOID"
            /\ \/ ~type_is_object_type(T, T[T[called_type].elem].elem)
               \/ T[T[T[called_type].elem].elem].class = "CTC_ARRAY"
    THEN <<error_init(syn, "function to be called must have a return type of void or an object type besides an array type")>>
    ELSE <<>>

\* lines 753-775: the arguments from the i-th on against the parameter types;
\* vector_get past the parameters is NULL
RECURSIVE ArgumentTypeErrors(_, _, _, _, _)
ArgumentTypeErrors(T, syn, params, args, i) ==
    IF i > Len(args) \/ i > Len(params) THEN <<>>
    ELSE (IF can_assign(T, Unqualify(T, params[i][2]), args[i].ctype, args[i]) THEN <<>>
          ELSE <<error_init(syn \o <<i>>, "invalid type for argument of this function call")>>)
         \o ArgumentTypeErrors(T, syn, params, args, i + 1)

\* lines 779-788
RECURSIVE ArgumentObjectErrors(_, _, _, _)
ArgumentObjectErrors(T, syn, args, i) ==
    IF i > Len(args) THEN <<>>
    ELSE (IF type_is_object_type(T, args[i].ctype) THEN <<>>
          ELSE <<error_init(syn \o <<i>>, "argument in function call needs to be of object type")>>)
         \o ArgumentObjectErrors(T, syn, args, i + 1)

\* lines 790-802
CallType(T, called_type, pass) ==
    IF ~pass THEN "error"
    ELSE IF type_is_object_type(T, T[T[called_type].elem].elem) THEN T[T[called_type].elem].elem
    ELSE "void"

\* lines 736-777, pass being true: fn is the function type called
CheckArguments(T, syn, called_type, fn, args) ==
    IF fn.variadic /\ Len(args) < Len(fn.members)
    THEN Decorated(
             CallType(T, called_type, ArgumentObjectErrors(T, syn, args, 1) = <<>>),
             <<error_init(syn, "function to be called expected more argument(s)")>>
             \o ArgumentObjectErrors(T, syn, args, 1))
    ELSE IF ~fn.variadic /\ Len(fn.members) # Len(args)
    THEN Decorated(
             "error",
             <<error_init(syn, "function to be called expected other argument(s)")>>
             \o ArgumentObjectErrors(T, syn, args, 1))
    ELSE Decorated(
             CallType(T, called_type,
                      /\ ArgumentTypeErrors(T, syn, fn.members, args, 1) = <<>>
                      /\ ArgumentObjectErrors(T, syn, args, 1) = <<>>),
             ArgumentTypeErrors(T, syn, fn.members, args, 1)
             \o ArgumentObjectErrors(T, syn, args, 1))

\* lines 715-803
analyze_function_call_expression_after(T, syn, called_type, args) ==
    IF T[called_type].class = "CTC_ERROR" \/ CalledTypeErrors(T, syn, called_type) # <<>>
    THEN Decorated("error", CalledTypeErrors(T, syn, called_type)
                            \o ArgumentObjectErrors(T, syn, args, 1))
    ELSE CheckArguments(T, syn, called_type, T[T[called_type].elem], args)

(***************************************************************************)
(* SpecExpr: an expression analyzed bottom up.  An identifier is decorated *)
(* first; each further step decorates the parent node, whose other         *)
(* operands are identifiers of declared symbols.                           *)
(***************************************************************************)
MaxDepth == 2       \* operators above the innermost identifier
MaxArgs == 2        \* arguments of a function call

\* the types of the declared symbols an expression names
SymbolTypes == {"int", "double", "const int", "int*", "void*", "P", "int(int)", "int(int,...)"}

\* identifiers as analyze_identifier_after decorates them
OtherOperands ==
    {Identifier(analyze_identifier_after(ExprTypes, <<>>, sy).ctype)
        : sy \in {"int", "int*", "P", "int(int)", "int(int,...)"}}

\* identifiers that are modifiable lvalues
AssignedOperands == {Identifier(t) : t \in {"int", "int*", "_Bool"}}

Node(type, ctype) ==
    [type |-> type, ctype |-> ctype, tn |-> "", value |-> 0, operand |-> <<>>]

InitExpr ==
    /\ BackendIdle
    /\ InitIdle
    /\ assign = [pc |-> "idle"]
    /\ expr = [pc |-> "start", node |-> Node("", ""), operands |-> <<>>, added |-> 0, depth |-> 0]

\* the handler of the node of syntax type `type` has run on `operands` and
\* yielded r
Decorate(type, operands, r) ==
    /\ expr.depth <= MaxDepth
    /\ expr' = [pc |-> "decorated", node |-> Node(type, r.ctype), operands |-> operands,
                added |-> Len(r.diags), depth |-> expr.depth + 1]
    /\ errors' = errors \o r.diags
    /\ UNCHANGED <<backendVars, ipc, decl, types, sem, image, writes, assign>>

AnalyzeIdentifier ==
    /\ expr.pc = "start"
    /\ \E sy \in SymbolTypes \cup {"NULL"} :
          Decorate("SC_PRIMARY_EXPRESSION_IDENTIFIER", <<>>, analyze_identifier_after(ExprTypes, <<expr.depth>>, sy))

AnalyzeDereference ==
    /\ expr.pc = "decorated"
    /\ Decorate("SC_DEREFERENCE_EXPRESSION", <<expr.node.ctype>>,
                analyze_dereference_expression_after(ExprTypes, <<expr.depth>>, expr.node.ctype))

AnalyzeAddition ==
    /\ expr.pc = "decorated"
    /\ \E other \in OtherOperands, lhs \in BOOLEAN :
          LET tlhs == IF lhs THEN expr.node.ctype ELSE other.ctype
              trhs == IF lhs THEN other.ctype ELSE expr.node.ctype
          IN Decorate("SC_ADDITION_EXPRESSION", <<tlhs, trhs>>,
                      analyze_addition_expression_after(ExprTypes, <<expr.depth>>, tlhs, trhs))

AnalyzeAssignment ==
    /\ expr.pc = "decorated"
    /\ \E lhs \in AssignedOperands :
          Decorate("SC_ASSIGNMENT_EXPRESSION", <<lhs.ctype, expr.node.ctype>>,
                   analyze_assignment_expression_after(ExprTypes, <<expr.depth>>, lhs, expr.node))

AnalyzeFunctionCall ==
    /\ expr.pc = "decorated"
    /\ \E called \in OtherOperands \cup {expr.node},
          args \in SeqsUpTo(OtherOperands \cup {expr.node}, MaxArgs) :
          /\ called = expr.node \/ \E i \in 1..Len(args) : args[i] = expr.node
          /\ Decorate("SC_FUNCTION_CALL_EXPRESSION",
                      <<called.ctype>> \o [i \in 1..Len(args) |-> args[i].ctype],
                      analyze_function_call_expression_after(
                          ExprTypes, <<expr.depth>>, called.ctype, args))

NextExpr ==
    \/ AnalyzeIdentifier
    \/ AnalyzeDereference
    \/ AnalyzeAddition
    \/ AnalyzeAssignment
    \/ AnalyzeFunctionCall

SpecExpr == InitExpr /\ [][NextExpr]_vars

\* an operand the handler read has the type Error
HasErrorOperand == \E i \in 1..Len(expr.operands) : expr.operands[i] = "error"

(***************************************************************************)
(* C8: a handler one of whose operands has the type Error sets the type    *)
(* Error on its node and appends no diagnostic.                            *)
(* Only the function call handler looks for Error, and only in the called  *)
(* expression: the dereference, addition and assignment handlers report    *)
(* the Error operand as an operand of the wrong type, so this fails.       *)
(***************************************************************************)
C8_ErrorOperandAddsNoDiagnostic ==
    (expr.pc = "decorated" /\ HasErrorOperand) =>
        /\ expr.node.ctype = "error"
        /\ expr.added = 0

(***************************************************************************)
(* C9: whenever a handler appends a diagnostic, the type it sets on the    *)
(* node is Error; so for a call of a variadic function with fewer          *)
(* arguments than named parameters.                                        *)
(* The variadic branch appends its diagnostic and leaves pass true, so the *)
(* call keeps the return type and this fails.                              *)
(***************************************************************************)
C9_DiagnosticImpliesErrorType ==
    (expr.pc = "decorated" /\ expr.added > 0) => expr.node.ctype = "error"

(***************************************************************************)
(* The conditional expression.  The handler reads                          *)
(* op->derived_from->qualifiers of both operands in its pointer branches;  *)
(* a type that derives from nothing has a NULL derived_from, and reading   *)
(* through it is undefined: the read faults or yields any bitmask.         *)
(***************************************************************************)
derived_from_qualifiers(T, t) ==
    IF T[t].elem # "" THEN {[fault |-> FALSE, q |-> T[T[t].elem].qualifiers]}
    ELSE {[fault |-> TRUE, q |-> {}]}
         \cup {[fault |-> FALSE, q |-> q] : q \in SUBSET {"TQ_B_CONST", "TQ_B_VOLATILE"}}

\* make_basic_type(CTC_POINTER) deriving from the type t with the qualifiers q
QualifiedPointer(T, t, q) ==
    CHOOSE n \in DOMAIN T :
        T[n] = PointerType(CHOOSE m \in DOMAIN T : T[m] = [T[t] EXCEPT !.qualifiers = q])

\* lines 1771-1855: the branch of the chain the operands e2, e3 take
ConditionalBranch(T, e2, e3) ==
    CASE type_is_arithmetic(T, e2.ctype) /\ type_is_arithmetic(T, e3.ctype) -> "arithmetic"
      [] /\ T[e2.ctype].class \in {"CTC_STRUCTURE", "CTC_UNION"}
         /\ T[e3.ctype].class \in {"CTC_STRUCTURE", "CTC_UNION"}
         /\ T[e2.ctype] = T[e3.ctype] -> "struct"
      [] OTHER ->
    CASE T[e2.ctype].class = "CTC_VOID" /\ T[e3.ctype].class = "CTC_VOID" -> "void"
      [] OTHER ->
    CASE /\ T[e2.ctype].class = "CTC_POINTER" /\ T[e3.ctype].class = "CTC_POINTER"
         /\ type_is_compatible_ignore_qualifiers(T, T[e2.ctype].elem, T[e3.ctype].elem) -> "pointers"
      [] OTHER ->
    CASE T[e2.ctype].class = "CTC_POINTER" /\ syntax_is_null_ptr_constant(e3) -> "if"
      [] OTHER ->
    CASE T[e3.ctype].class = "CTC_POINTER" /\ syntax_is_null_ptr_constant(e2) -> "else"
      [] OTHER ->
    CASE /\ T[e2.ctype].class = "CTC_POINTER"
         /\ type_is_object_type(T, T[e2.ctype].elem) \/ ~type_is_complete(T, T[e2.ctype].elem)
         /\ T[e3.ctype].class = "CTC_VOID" -> "void pointer"
      [] OTHER ->
    CASE /\ T[e3.ctype].class = "CTC_POINTER"
         /\ type_is_object_type(T, T[e3.ctype].elem) \/ ~type_is_complete(T, T[e3.ctype].elem)
         /\ T[e2.ctype].class = "CTC_VOID" -> "void pointer"
      [] OTHER -> "none"

\* the type a branch gives ft, q being op2's | op3's pointee qualifiers
ConditionalType(T, branch, t2, t3, q) ==
    CASE branch = "arithmetic" -> usual_arithmetic_conversions_result_type(T, t2, t3)
      [] branch = "struct" -> t2
      [] branch = "void" -> "void"
      [] branch \in {"pointers", "if"} -> QualifiedPointer(T, T[t2].elem, q)
      [] branch = "else" -> QualifiedPointer(T, T[t3].elem, q)
      [] branch = "void pointer" -> QualifiedPointer(T, "void", q)

\* lines 1758-1868; r2, r3 are what reading the pointee qualifiers of op2 and
\* op3 yields.  [fault, ctype, diags]
analyze_conditional_expression_after(T, syn, condition, e2, e3, r2, r3) ==
    IF ~type_is_scalar(T, condition)
    THEN [fault |-> FALSE, ctype |-> "error",
          diags |-> <<error_init(syn, "condition of a conditional expression must have a scalar type")>>]
    ELSE IF ConditionalBranch(T, e2, e3) = "none"
    THEN [fault |-> FALSE, ctype |-> "error",
          diags |-> <<error_init(syn, "invalid operands of conditional expression")>>]
    ELSE IF /\ ConditionalBranch(T, e2, e3) \in {"pointers", "if", "else", "void pointer"}
            /\ r2.fault \/ r3.fault
    THEN [fault |-> TRUE, ctype |-> "", diags |-> <<>>]
    ELSE [fault |-> FALSE, diags |-> <<>>,
          ctype |-> ConditionalType(T, ConditionalBranch(T, e2, e3), e2.ctype, e3.ctype,
                                    r2.q \cup r3.q)]

(***************************************************************************)
(* SpecCond: analyze_conditional_expression_after on decorated operands.   *)
(***************************************************************************)
ConditionalOperands ==
    {Identifier(t) : t \in {"int", "double", "P", "U", "void", "int*", "const int*", "I*",
                            "volatile I*", "void*", "const void*", "double*"}}
    \cup {IntegerConstant(0), IntegerConstant(1), CastExpression("void*", IntegerConstant(0))}

InitCond ==
    /\ BackendIdle
    /\ InitIdle
    /\ assign = [pc |-> "idle"]
    /\ \E c \in {"int", "int*", "P"}, e2 \in ConditionalOperands, e3 \in ConditionalOperands :
          expr = [pc |-> "operands", cexpr_condition |-> c, cexpr_if |-> e2, cexpr_else |-> e3,
                  ctype |-> "", added |-> 0]

AnalyzeConditional ==
    /\ expr.pc = "operands"
    /\ \E r2 \in derived_from_qualifiers(ExprTypes, expr.cexpr_if.ctype),
          r3 \in derived_from_qualifiers(ExprTypes, expr.cexpr_else.ctype) :
          LET r == analyze_conditional_expression_after(
                       ExprTypes, <<>>, expr.cexpr_condition, expr.cexpr_if, expr.cexpr_else, r2, r3)
          IN /\ expr' = [expr EXCEPT !.pc = IF r.fault THEN "fault" ELSE "decorated",
                                     !.ctype = r.ctype, !.added = Len(r.diags)]
             /\ errors' = errors \o r.diags
    /\ UNCHANGED <<backendVars, ipc, decl, types, sem, image, writes, assign>>

SpecCond == InitCond /\ [][AnalyzeConditional]_vars

\* the qualifiers of the two operands' pointees together
BothPointeesQualifiers ==
    ExprTypes[Pointee(expr.cexpr_if.ctype)].qualifiers
    \cup ExprTypes[Pointee(expr.cexpr_else.ctype)].qualifiers

\* the handler has been run, on a condition of scalar type
ConditionalAnalyzed ==
    /\ expr.pc \in {"decorated", "fault"}
    /\ IsArithmetic(expr.cexpr_condition) \/ IsPointer(expr.cexpr_condition)

(***************************************************************************)
(* C11: a conditional expression with a scalar condition whose second and  *)
(* third operands are, in either order, a pointer to an object or          *)
(* incomplete type and a pointer to void (neither a null pointer constant) *)
(* gets no diagnostic and the type pointer to void with the qualifiers of  *)
(* both pointees.                                                          *)
(* The handler tests the other operand for the class void, not for a       *)
(* pointer to void, so int * with void * ends in "invalid operands of      *)
(* conditional expression": this fails.                                    *)
(***************************************************************************)
C11_PointerAndVoidPointerGiveVoidPointer ==
    ( /\ ConditionalAnalyzed
      /\ PointerAndVoidPointer(expr.cexpr_if.ctype, expr.cexpr_else.ctype)
      /\ ~IsNullPointerConstant(expr.cexpr_if) /\ ~IsNullPointerConstant(expr.cexpr_else) )
    => /\ expr.pc = "decorated"
       /\ expr.added = 0
       /\ PointsToVoid(expr.ctype)
       /\ ExprTypes[Pointee(expr.ctype)].qualifiers = BothPointeesQualifiers

(***************************************************************************)
(* C12: a conditional expression with a scalar condition, one operand a    *)
(* pointer and the other a null pointer constant, in either position, gets *)
(* the type of the pointer operand and no diagnostic, and the handler      *)
(* completes; so when the constant is the literal 0, whose type has no     *)
(* pointee.                                                                *)
(* The handler reads op->derived_from->qualifiers of both operands, of the *)
(* int operand through a NULL derived_from: it faults, or types the node   *)
(* with whatever the read yields, so this fails.                           *)
(***************************************************************************)
C12_PointerAndNullPointerConstant ==
    /\ ( /\ ConditionalAnalyzed
         /\ IsPointer(expr.cexpr_if.ctype)
         /\ IsNullPointerConstant(expr.cexpr_else) )
       => /\ expr.pc = "decorated"
          /\ expr.added = 0
          /\ expr.ctype = expr.cexpr_if.ctype
    /\ ( /\ ConditionalAnalyzed
         /\ IsPointer(expr.cexpr_else.ctype)
         /\ IsNullPointerConstant(expr.cexpr_if) )
       => /\ expr.pc = "decorated"
          /\ expr.added = 0
          /\ expr.ctype = expr.cexpr_else.ctype

(***************************************************************************)
(* SpecNull: syntax_is_null_ptr_constant applied to an expression.         *)
(***************************************************************************)
MaxConstant == 2    \* the largest integer constant of an operand

UncastOperands ==
    {IntegerConstant(v) : v \in 0..MaxConstant}
    \cup {SubtractionExpression(IntegerConstant(v), IntegerConstant(w)) : v, w \in 0..MaxConstant}
    \cup {FloatingConstant(0), Identifier("int"), Identifier("void*")}

NullOperands ==
    UncastOperands
    \cup {CastExpression(tn, e) : tn \in {"void*", "const void*", "volatile void*", "int*", "int"},
                                   e \in UncastOperands \ {Identifier("void*")}}
    \cup {CastExpression("void*", CastExpression("int", IntegerConstant(v))) : v \in 0..MaxConstant}

InitNull ==
    /\ BackendIdle
    /\ InitIdle
    /\ expr = [pc |-> "idle"]
    /\ \E e \in NullOperands : assign = [pc |-> "call", tlhs |-> "", rhs |-> e, pass |-> FALSE]

IsNullPtrConstant ==
    /\ assign.pc = "call"
    /\ assign' = [assign EXCEPT !.pc = "returned", !.pass = syntax_is_null_ptr_constant(assign.rhs)]
    /\ UNCHANGED <<backendVars, initVars, expr>>

SpecNull == InitNull /\ [][IsNullPtrConstant]_vars

(***************************************************************************)
(* ISO C99 6.6 (6) and 6.3.2.3 (3) on the expressions of the model: the    *)
(* value of an integer constant expression, <<>> if e is none.  A floating *)
(* constant is one only as the immediate operand of a cast to an integer   *)
(* type.                                                                   *)
(***************************************************************************)
RECURSIVE IntegerConstantExpression(_)
IntegerConstantExpression(e) ==
    CASE e.type = "SC_INTEGER_CONSTANT" -> <<e.value>>
      [] e.type = "SC_SUBTRACTION_EXPRESSION" ->
            IF IntegerConstantExpression(e.operand[1]) # <<>>
               /\ IntegerConstantExpression(e.operand[2]) # <<>>
            THEN <<IntegerConstantExpression(e.operand[1])[1]
                   - IntegerConstantExpression(e.operand[2])[1]>>
            ELSE <<>>
      [] e.type = "SC_CAST_EXPRESSION" /\ e.tn = "int" ->
            IF e.operand[1].type = "SC_FLOATING_CONSTANT" THEN <<e.operand[1].value>>
            ELSE IntegerConstantExpression(e.operand[1])
      [] OTHER -> <<>>

ZeroConstantExpression(e) == IntegerConstantExpression(e) = <<0>>

(***************************************************************************)
(* C13: syntax_is_null_ptr_constant is true exactly for an integer         *)
(* constant expression of value zero and for a cast of one to unqualified  *)
(* void *.                                                                 *)
(* The function answers false for every cast whose type name is not        *)
(* void *, before it looks at the value: (int)0 is an integer constant     *)
(* expression of value zero and is refused, so this fails.  The listed     *)
(* cases come out as claimed: 0, 1-1 and 0 cast to void * are accepted;    *)
(* 1 cast to void *, 0 cast to int * or to const void *, and 0.0 are not.  *)
(***************************************************************************)
C13_NullPtrConstantExactly ==
    assign.pc = "returned" =>
        ( assign.pass <=>
            \/ ZeroConstantExpression(assign.rhs)
            \/ /\ assign.rhs.type = "SC_CAST_EXPRESSION"
               /\ assign.rhs.tn = "void*"
               /\ ZeroConstantExpression(assign.rhs.operand[1]) )

(***************************************************************************)
(* The backend: x86_write_data.  A data object is [length, words,          *)
(* addresses]: words[p \div 8] is the int64 stored at the byte position p  *)
(* (the addend, at the position of a relocation), addresses the            *)
(* x86_asm_init_address_t entries [data_location, label] in the order the  *)
(* analyzer recorded them (x86_generate_data keeps it).  The bytes after   *)
(* the last whole word print as 0.                                         *)
(***************************************************************************)
POINTER_WIDTH == 8

\* lines 698-727: the directives from the position i on, j entries consumed
RECURSIVE WriteDataFrom(_, _, _)
WriteDataFrom(d, i, j) ==
    IF i >= d.length THEN <<>>
    ELSE IF j < Len(d.addresses) /\ i = d.addresses[j + 1].data_location
    THEN <<Line(".quad", d.addresses[j + 1].label, "", d.words[i \div 8])>>
         \o WriteDataFrom(d, i + POINTER_WIDTH, j + 1)
    ELSE IF i + 8 <= d.length
    THEN <<Line(".quad", "", "", d.words[i \div 8])>> \o WriteDataFrom(d, i + 8, j)
    ELSE IF i + 4 <= d.length
    THEN <<Line(".long", "", "", 0)>> \o WriteDataFrom(d, i + 4, j)
    ELSE IF i + 2 <= d.length
    THEN <<Line(".word", "", "", 0)>> \o WriteDataFrom(d, i + 2, j)
    ELSE <<Line(".byte", "", "", 0)>> \o WriteDataFrom(d, i + 1, j)

\* lines 694-729
x86_write_data(d) ==
    <<Line(".align", "", "", d.alignment), Line("label", d.label, "", 0)>>
    \o WriteDataFrom(d, 0, 0)

(***************************************************************************)
(* SpecData: a data object with the relocations of its initializer, then   *)
(* x86_write_data.  A relocation is at the position of a pointer: a        *)
(* multiple of 8 inside an object whose length is one.                     *)
(***************************************************************************)
MaxWords == 3       \* 8-byte words of a data object that holds pointers
MaxAddresses == 2   \* relocation entries of a data object

DataLengths == {1, 2, 4, 12} \cup {8 * n : n \in 1..MaxWords}

DataObjects ==
    UNION {
        {[length |-> len, alignment |-> IF len % 8 = 0 THEN 8 ELSE 4, label |-> "s",
          words |-> w, addresses |-> a]
            : w \in [0..((len \div 8) - 1) -> {0, 8, -8}],
              a \in IF len % 8 = 0
                    THEN SeqsUpTo([data_location : {8 * n : n \in 0..((len \div 8) - 1)},
                                   label : {"a", "b"}], MaxAddresses)
                    ELSE {<<>>}}
        : len \in DataLengths}

InitData ==
    /\ AnalyzerIdle
    /\ bpc = "generated"
    /\ aroutine = [uses_varargs |-> FALSE, global |-> FALSE]
    /\ routine = IdleRoutine
    /\ symtab = <<>>
    /\ x86op = <<>>
    /\ out = <<>>
    /\ \E d \in DataObjects : data = [pc |-> "generated", object |-> d]

WriteData ==
    /\ data.pc = "generated"
    /\ out' = x86_write_data(data.object)
    /\ data' = [data EXCEPT !.pc = "written"]
    /\ bpc' = "written"
    /\ UNCHANGED <<aroutine, routine, symtab, x86op, analyzerVars>>

SpecData == InitData /\ [][WriteData]_vars

\* the width of the data a directive line holds
DirectiveWidth(line) ==
    CASE line.op = ".quad" -> 8
      [] line.op = ".long" -> 4
      [] line.op = ".word" -> 2
      [] line.op = ".byte" -> 1
      [] OTHER -> 0

\* the data position of the k-th line printed
RECURSIVE DirectivePosition(_)
DirectivePosition(k) ==
    IF k = 1 THEN 0 ELSE DirectivePosition(k - 1) + DirectiveWidth(out[k - 1])

\* the .quad lines that name a label
LabelledQuads == {k \in 1..Len(out) : out[k].op = ".quad" /\ out[k].a # ""}

(***************************************************************************)
(* C14: x86_write_data prints, for every relocation entry of the object,   *)
(* one .quad line that names the entry's label with the stored addend at   *)
(* the entry's data position, no other labelled .quad, and directives      *)
(* whose widths sum to the object's length; in whatever order the entries  *)
(* were recorded.                                                          *)
(* The loop looks only at the next unconsumed entry: an entry recorded     *)
(* after one of a higher or of the same position is never reached, and its *)
(* position is printed as plain data or under the other label, so this     *)
(* fails.                                                                  *)
(***************************************************************************)
C14_EveryRelocationPrinted ==
    data.pc = "written" =>
        /\ \A e \in 1..Len(data.object.addresses) :
              \E k \in LabelledQuads :
                 /\ out[k].a = data.object.addresses[e].label
                 /\ DirectivePosition(k) = data.object.addresses[e].data_location
                 /\ out[k].n = data.object.words[data.object.addresses[e].data_location \div 8]
        /\ \A k \in LabelledQuads :
              \E e \in 1..Len(data.object.addresses) :
                 /\ out[k].a = data.object.addresses[e].label
                 /\ DirectivePosition(k) = data.object.addresses[e].data_location
        /\ DirectivePosition(Len(out) + 1) = data.object.length

(***************************************************************************)
(* The backend: the mnemonic x86_write_insn prints.                        *)
(***************************************************************************)
\* lines 211-221
x86_operand_size_character(size) ==
    CASE size = "X86SZ_BYTE" -> "b"
      [] size = "X86SZ_WORD" -> "w"
      [] size = "X86SZ_DWORD" -> "l"
      [] size = "X86SZ_QWORD" -> "q"
      [] OTHER -> "?"

\* lines 223-304: the types of the second group of the switch return false
x86_insn_uses_suffix(insn) ==
    insn.type \notin
    {"X86I_MOVSS", "X86I_MOVSD", "X86I_ADDSS", "X86I_ADDSD", "X86I_SUBSS",
     "X86I_SUBSD", "X86I_MULSS", "X86I_MULSD", "X86I_DIVSS", "X86I_DIVSD",
     "X86I_CVTSD2SS", "X86I_CVTSS2SD", "X86I_COMISS", "X86I_COMISD",
     "X86I_XORPD", "X86I_XORPS", "X86I_UCOMISS", "X86I_UCOMISD",
     "X86I_PTEST", "X86I_MOVZX", "X86I_MOVSX", "X86I_STC", "X86I_REP_STOSB",
     "X86I_SYSCALL"}

\* lines 584-662: the instructions printed through USUAL_START, <<type, name>>
UsualNames ==
    {<<"X86I_PUSH", "push">>, <<"X86I_NEG", "neg">>, <<"X86I_MOV", "mov">>,
     <<"X86I_MOVSS", "movss">>, <<"X86I_MOVSD", "movsd">>,
     <<"X86I_MOVSX", "movsx">>, <<"X86I_MOVZX", "movzx">>,
     <<"X86I_LEA", "lea">>, <<"X86I_AND", "and">>, <<"X86I_OR", "or">>,
     <<"X86I_CMP", "cmp">>, <<"X86I_NOT", "not">>, <<"X86I_ADD", "add">>,
     <<"X86I_ADDSS", "addss">>, <<"X86I_ADDSD", "addsd">>,
     <<"X86I_SUB", "sub">>, <<"X86I_SUBSS", "subss">>,
     <<"X86I_SUBSD", "subsd">>, <<"X86I_MUL", "mul">>,
     <<"X86I_IMUL", "imul">>, <<"X86I_MULSS", "mulss">>,
     <<"X86I_MULSD", "mulsd">>, <<"X86I_DIV", "div">>,
     <<"X86I_IDIV", "idiv">>, <<"X86I_DIVSS", "divss">>,
     <<"X86I_DIVSD", "divsd">>, <<"X86I_XOR", "xor">>,
     <<"X86I_XORPS", "xorps">>, <<"X86I_XORPD", "xorpd">>,
     <<"X86I_CVTSD2SS", "cvtsd2ss">>, <<"X86I_CVTSS2SD", "cvtss2sd">>,
     <<"X86I_CVTSI2SS", "cvtsi2ss">>, <<"X86I_CVTSI2SD", "cvtsi2sd">>,
     <<"X86I_CVTTSS2SI", "cvttss2si">>, <<"X86I_CVTTSD2SI", "cvttsd2si">>,
     <<"X86I_COMISS", "comiss">>, <<"X86I_COMISD", "comisd">>,
     <<"X86I_UCOMISS", "ucomiss">>, <<"X86I_UCOMISD", "ucomisd">>,
     <<"X86I_TEST", "test">>, <<"X86I_PTEST", "ptest">>,
     <<"X86I_SHL", "shl">>, <<"X86I_SHR", "shr">>, <<"X86I_SAR", "sar">>,
     <<"X86I_ROR", "ror">>}

\* lines 486-582 and 648: the instructions printed as a fixed string
FixedNames ==
    {<<"X86I_LEAVE", "leave">>, <<"X86I_RET", "ret">>, <<"X86I_STC", "stc">>,
     <<"X86I_NOP", "nop">>, <<"X86I_SYSCALL", "syscall">>,
     <<"X86I_CALL", "call">>, <<"X86I_JMP", "jmp">>, <<"X86I_JE", "je">>,
     <<"X86I_JNE", "jne">>, <<"X86I_JNB", "jnb">>, <<"X86I_JS", "js">>,
     <<"X86I_SETE", "sete">>, <<"X86I_SETNE", "setne">>,
     <<"X86I_SETLE", "setle">>, <<"X86I_SETL", "setl">>,
     <<"X86I_SETGE", "setge">>, <<"X86I_SETG", "setg">>,
     <<"X86I_SETA", "seta">>, <<"X86I_SETNB", "setnb">>,
     <<"X86I_SETP", "setp">>, <<"X86I_SETNP", "setnp">>,
     <<"X86I_REP_STOSB", "rep stosb">>}

\* lines 468-692: what x86_write_insn prints before the operands; a label
\* prints its own text, and a type without a case (pop) prints nothing
x86_write_insn_name(insn) ==
    IF \E p \in FixedNames : p[1] = insn.type
    THEN (CHOOSE p \in FixedNames : p[1] = insn.type)[2]
    ELSE IF \E p \in UsualNames : p[1] = insn.type
    THEN (CHOOSE p \in UsualNames : p[1] = insn.type)[2]
         \o (IF x86_insn_uses_suffix(insn) THEN x86_operand_size_character(insn.size) ELSE "")
    ELSE ""

(***************************************************************************)
(* SpecInsn: x86_write_insn on one instruction of any type and size.       *)
(***************************************************************************)
InitInsn ==
    /\ AnalyzerIdle
    /\ bpc = "generated"
    /\ aroutine = [uses_varargs |-> FALSE, global |-> FALSE]
    /\ \E t \in {p[1] : p \in UsualNames \cup FixedNames} \cup {"X86I_POP", "X86I_SKIP"},
          sz \in {"X86SZ_BYTE", "X86SZ_WORD", "X86SZ_DWORD", "X86SZ_QWORD"} :
          routine = [IdleRoutine EXCEPT !.insns = <<[Insn(t, NullOp, NullOp) EXCEPT !.size = sz]>>]
    /\ symtab = <<>>
    /\ x86op = <<>>
    /\ out = <<>>
    /\ data = [pc |-> "idle"]

WriteInsn ==
    /\ bpc = "generated"
    /\ out' = <<Line(x86_write_insn_name(routine.insns[1]), "", "", 0)>>
    /\ bpc' = "written"
    /\ UNCHANGED <<aroutine, routine, symtab, x86op, data, analyzerVars>>

SpecInsn == InitInsn /\ [][WriteInsn]_vars

\* the name of the instruction without a suffix
PlainName(type) == (CHOOSE p \in UsualNames \cup FixedNames : p[1] = type)[2]

SizeSuffixes == {"b", "w", "l", "q"}

ArithmeticLogicMove ==
    {"X86I_MOV", "X86I_ADD", "X86I_SUB", "X86I_MUL", "X86I_IMUL", "X86I_DIV", "X86I_IDIV",
     "X86I_NEG", "X86I_AND", "X86I_OR", "X86I_XOR", "X86I_NOT", "X86I_SHL", "X86I_SHR",
     "X86I_SAR", "X86I_ROR"}

NeverSuffixed ==
    {"X86I_LEA", "X86I_CALL", "X86I_LEAVE", "X86I_RET", "X86I_NOP", "X86I_SYSCALL",
     "X86I_JMP", "X86I_JE", "X86I_JNE", "X86I_JNB", "X86I_JS",
     "X86I_SETE", "X86I_SETNE", "X86I_SETLE", "X86I_SETL", "X86I_SETGE", "X86I_SETG",
     "X86I_SETA", "X86I_SETNB", "X86I_SETP", "X86I_SETNP",
     "X86I_MOVSS", "X86I_MOVSD", "X86I_ADDSS", "X86I_ADDSD", "X86I_SUBSS", "X86I_SUBSD",
     "X86I_MULSS", "X86I_MULSD", "X86I_DIVSS", "X86I_DIVSD", "X86I_XORPS", "X86I_XORPD",
     "X86I_COMISS", "X86I_COMISD", "X86I_UCOMISS", "X86I_UCOMISD",
     "X86I_CVTSD2SS", "X86I_CVTSS2SD", "X86I_CVTSI2SS", "X86I_CVTSI2SD",
     "X86I_CVTTSS2SI", "X86I_CVTTSD2SI"}

(***************************************************************************)
(* C15: x86_write_insn prints the name of an arithmetic, logic or move     *)
(* instruction with the size suffix b, w, l or q, and the name of lea, of  *)
(* an SSE instruction (the cvt conversions included), of a jump, of call,  *)
(* leave, ret, nop, setcc and syscall without one.                         *)
(* x86_insn_uses_suffix answers true for lea and for cvtsi2ss, cvtsi2sd,   *)
(* cvttss2si and cvttsd2si, which are printed through USUAL_START: they    *)
(* get the suffix, so this fails.                                          *)
(***************************************************************************)
C15_SuffixOnlyOnArithmeticLogicMove ==
    bpc = "written" =>
        /\ routine.insns[1].type \in ArithmeticLogicMove =>
              \E c \in SizeSuffixes : out[1].op = PlainName(routine.insns[1].type) \o c
        /\ routine.insns[1].type \in NeverSuffixed =>
              out[1].op = PlainName(routine.insns[1].type)

(***************************************************************************)
(* The text of a written routine (SpecRoutine), line by line.              *)
(***************************************************************************)
\* the printed jumps to a return label, and the printed return labels
ReturnJumpLines == {k \in 1..Len(out) : out[k].op = "jmp" /\ out[k].a = ".L" /\ out[k].b = "R"}
ReturnLabelLines == {k \in 1..Len(out) : out[k].op = "label:" /\ out[k].a = ".LR"}

\* the instructions of the routine that are return jumps and not the last one
InnerReturnJumps ==
    {i \in 1..(Len(routine.insns) - 1) :
        /\ routine.insns[i].type = "X86I_JMP"
        /\ routine.insns[i].op1.type = "X86OP_LABEL"
        /\ routine.insns[i].op1.lkind = "R"}

(***************************************************************************)
(* C16: every printed jmp .LR<n> has n equal to the routine's id; one jump *)
(* is printed for every return jump that is not the last instruction, and  *)
(* none for a return jump that is the last; when a jump is printed the     *)
(* label .LR<id>: is printed once, with only the nonvolatile pops, leave   *)
(* and ret after it and an instruction before it; when none is printed,    *)
(* the label is not printed either.                                        *)
(***************************************************************************)
C16_ReturnLabel ==
    bpc = "written" =>
        /\ \A k \in ReturnJumpLines : out[k].n = routine.id
        /\ Cardinality(ReturnJumpLines) = Cardinality(InnerReturnJumps)
        /\ ReturnJumpLines = {} => ReturnLabelLines = {}
        /\ ReturnJumpLines # {} =>
              /\ Cardinality(ReturnLabelLines) = 1
              /\ \A k \in ReturnLabelLines :
                    /\ out[k].n = routine.id
                    /\ \A j \in (k + 1)..Len(out) : out[j].op \in {"popq", "leave", "ret"}
                    /\ out[k - 1].op \notin {"popq", "leave", "ret"}
                    /\ \A j \in ReturnJumpLines : j < k

\* two return jumps: the first is printed, the last falls through to the label
C16_JumpThenFallThrough ==
    /\ bpc = "written"
    /\ Len(routine.insns) = 2
    /\ routine.insns[1] = x86_generate_return(routine.id)
    /\ routine.insns[2] = x86_generate_return(routine.id)
    /\ Cardinality(ReturnJumpLines) = 1
    /\ Cardinality(ReturnLabelLines) = 1

\* the line pushq %rbp
FramePush == CHOOSE p \in 1..Len(out) : out[p] = Line("pushq", "rbp", "", 0)

\* the number of lines the stack allocation takes, and the save block
SubqLines == IF routine.stackalloc # 0 THEN 1 ELSE 0
SaveBlockLines == IF routine.uses_varargs THEN 15 ELSE 0

(***************************************************************************)
(* C20: the routine's text is, after its .globl and label lines,           *)
(* pushq %rbp; movq %rsp, %rbp; then, only when the stack allocation is    *)
(* nonzero, subq $N, %rsp with N the least multiple of 16 not below the    *)
(* absolute value of the stack allocation; then one pushq per used         *)
(* nonvolatile register; then, if the routine is variadic, the stores of   *)
(* the register save block; then the instructions.                         *)
(***************************************************************************)
C20_PrologueOrder ==
    bpc = "written" =>
        /\ \E p \in 1..Len(out) : out[p] = Line("pushq", "rbp", "", 0)
        /\ \A j \in 1..(FramePush - 1) : out[j].op \in {".globl", "label:"}
        /\ out[FramePush + 1] = Line("movq", "rsp", "rbp", 0)
        /\ \A k \in 1..Len(out) : out[k].op = "subq" =>
              /\ routine.stackalloc # 0
              /\ k = FramePush + 2
              /\ out[k].a = "$" /\ out[k].b = "rsp"
              /\ out[k].n % 16 = 0
              /\ out[k].n >= routine.stackalloc /\ out[k].n >= 0 - routine.stackalloc
              /\ out[k].n - 16 < routine.stackalloc \/ out[k].n - 16 < 0 - routine.stackalloc
        /\ routine.stackalloc # 0 => out[FramePush + 2].op = "subq"
        /\ \A j \in 1..Cardinality(routine.used_nonvolatiles) :
              /\ out[FramePush + 1 + SubqLines + j].op = "pushq"
              /\ out[FramePush + 1 + SubqLines + j].a \in routine.used_nonvolatiles
        /\ \A j \in 1..SaveBlockLines :
              /\ out[FramePush + 1 + SubqLines + Cardinality(routine.used_nonvolatiles) + j].op
                    \in {"movq", "movaps"}
              /\ out[FramePush + 1 + SubqLines + Cardinality(routine.used_nonvolatiles) + j].b
                    = "(rbp)"
        /\ out[FramePush + 2 + SubqLines + Cardinality(routine.used_nonvolatiles)
               + SaveBlockLines].op \notin {"subq", "pushq", "movq", "movaps"}

\* a variadic routine with 185 bytes allocated and a nonvolatile register used
C20_RoundedUpWithPushesAndSaveBlock ==
    /\ bpc = "written"
    /\ routine.uses_varargs
    /\ routine.stackalloc = 0 - (VARARGS_SAVE_AREA + 9)
    /\ routine.used_nonvolatiles # {}
    /\ out[FramePush + 2] = Line("subq", "$", "rsp", VARARGS_SAVE_AREA + 16)

(***************************************************************************)
(* SpecEnum: analyze_enumeration_constant_after on the enumerators of one  *)
(* enumerator list, in declaration order.                                  *)
(*                                                                         *)
(* A 64-bit value v is kept as the pair hi, lo with v = hi * 65536 + lo    *)
(* and 0 <= lo < 65536, so that values beyond the range of int are exact.  *)
(***************************************************************************)
I64(hi, lo) == [hi |-> hi, lo |-> lo]

\* int64_t + int
I64Add(v, d) == I64(v.hi + ((v.lo + d) \div 65536), (v.lo + d) % 65536)

\* value < -0x80000000LL || value > 0x7FFFFFFFLL
OutsideInt(v) == v.hi < 0 - 32768 \/ v.hi > 32767

\* the enumr_expression of an enumerator: NULL, or an expression that folds
\* to a value, or one that is no integer constant expression
NoExpression == [null |-> TRUE, constant |-> FALSE, value |-> I64(0, 0)]
ConstantExpression(v) == [null |-> FALSE, constant |-> TRUE, value |-> v]
OtherExpression == [null |-> FALSE, constant |-> FALSE, value |-> I64(0, 0)]

\* constexpr_evaluate_integer on an enumerator's expression
constexpr_evaluate_enumr(e) == [succeeded |-> e.constant, value |-> e.value]

\* constexpr_convert_class: the value in the width of the class
constexpr_convert_class(v, class) ==
    IF class = "CTC_INT" THEN I64(((v.hi + 32768) % 65536) - 32768, v.lo) ELSE v

\* enumr_value, and the enumerator that was given none
EnumrValue(v) == [assigned |-> TRUE, value |-> v]
NoValue == [assigned |-> FALSE, value |-> I64(0, 0)]

\* lines 2001-2010: the index of the last enumerator before position idx
\* (from zero) that has an expression, -1 if there is none
RECURSIVE LastWithExpression(_, _)
LastWithExpression(enumerators, idx) ==
    IF idx = 0 THEN 0 - 1
    ELSE IF ~enumerators[idx].null THEN idx - 1
         ELSE LastWithExpression(enumerators, idx - 1)

EnumRange == "enumeration constant value must be representable by type 'int'"
EnumICE == "enumeration constant value must be specified by an integer constant expression"

\* lines 1973-1995: the enumerator at position idx has an expression
EnumrWithExpression(enumerators, idx) ==
    LET ce == constexpr_evaluate_enumr(enumerators[idx + 1])
    IN  IF ~ce.succeeded
        THEN [value |-> NoValue, diags |-> <<error_init(idx + 1, EnumICE)>>]
        ELSE IF OutsideInt(constexpr_convert_class(ce.value, "CTC_LONG_LONG_INT"))
             THEN [value |-> NoValue, diags |-> <<error_init(idx + 1, EnumRange)>>]
             ELSE [value |-> EnumrValue(constexpr_convert_class(ce.value, "CTC_LONG_LONG_INT")),
                   diags |-> <<>>]

\* lines 2017-2037: it has none, and the enumerator at position last has one
EnumrAfterExpression(enumerators, idx, last) ==
    LET ce == constexpr_evaluate_enumr(enumerators[last + 1])
    IN  IF ~ce.succeeded
        THEN [value |-> NoValue, diags |-> <<error_init(last + 1, EnumICE)>>]
        ELSE IF OutsideInt(I64Add(constexpr_convert_class(ce.value, "CTC_INT"), idx - last))
             THEN [value |-> NoValue, diags |-> <<error_init(0, EnumRange)>>]
             ELSE [value |-> EnumrValue(I64Add(constexpr_convert_class(ce.value, "CTC_INT"),
                                               idx - last)),
                   diags |-> <<>>]

\* the enumerator at position idx of the list: the value it is given and the
\* diagnostics appended (syn: the number of the enumerator whose expression
\* the diagnostic is attached to, 0 for a NULL expression)
analyze_enumeration_constant_after(enumerators, idx) ==
    IF ~enumerators[idx + 1].null THEN EnumrWithExpression(enumerators, idx)
    ELSE IF LastWithExpression(enumerators, idx) = 0 - 1
         THEN [value |-> EnumrValue(I64(0, idx)), diags |-> <<>>]
         ELSE EnumrAfterExpression(enumerators, idx, LastWithExpression(enumerators, idx))

MaxEnumerators == 3

\* 0, 5, -1, INT_MAX, INT_MIN, INT_MAX + 1, INT_MIN - 1, 2^32
EnumValues ==
    {I64(0, 0), I64(0, 5), I64(0 - 1, 65535), I64(32767, 65535), I64(0 - 32768, 0),
     I64(32768, 0), I64(0 - 32769, 65535), I64(65536, 0)}

EnumExpressions ==
    {NoExpression, OtherExpression} \cup {ConstantExpression(v) : v \in EnumValues}

InitEnum ==
    /\ BackendIdle
    /\ InitIdle
    /\ assign = [pc |-> "idle"]
    /\ \E n \in 1..MaxEnumerators : \E es \in [1..n -> EnumExpressions] :
          expr = [pc |-> "enumerators", enums_enumerators |-> es,
                  enumr_value |-> [k \in 1..n |-> NoValue], added |-> <<>>]

\* the traverser reaches the next enumeration constant of the list
AnalyzeEnumerationConstant ==
    /\ expr.pc = "enumerators"
    /\ Len(expr.added) < Len(expr.enums_enumerators)
    /\ LET r == analyze_enumeration_constant_after(expr.enums_enumerators, Len(expr.added))
       IN  /\ expr' = [expr EXCEPT !.enumr_value[Len(expr.added) + 1] = r.value,
                                   !.added = Append(expr.added, Len(r.diags))]
           /\ errors' = errors \o r.diags
    /\ UNCHANGED <<backendVars, ipc, decl, types, sem, image, writes, assign>>

SpecEnum == InitEnum /\ [][AnalyzeEnumerationConstant]_vars

\* the enumerators before number k that have an initializer
InitializedBefore(k) == {j \in 1..(k - 1) : ~expr.enums_enumerators[j].null}
NearestInitialized(k) == CHOOSE j \in InitializedBefore(k) : \A i \in InitializedBefore(k) : i <= j

\* the initializer that determines the value of enumerator k folds
EnumrFolds(k) ==
    IF ~expr.enums_enumerators[k].null THEN expr.enums_enumerators[k].constant
    ELSE InitializedBefore(k) # {} => expr.enums_enumerators[NearestInitialized(k)].constant

\* the value of enumerator k by the three rules
EnumrRuleValue(k) ==
    IF ~expr.enums_enumerators[k].null THEN expr.enums_enumerators[k].value
    ELSE IF InitializedBefore(k) = {} THEN I64(0, k - 1)
         ELSE I64Add(expr.enums_enumerators[NearestInitialized(k)].value, k - NearestInitialized(k))

(***************************************************************************)
(* C17: each analyzed enumerator whose determining initializer folds has   *)
(* the value of its own initializer, else that of the nearest preceding    *)
(* enumerator with an initializer plus the distance between the two, else  *)
(* its position from zero; when that value is outside the range of int, a  *)
(* diagnostic is appended and no value is assigned.                        *)
(***************************************************************************)
C17_EnumeratorValues ==
    expr.pc = "enumerators" =>
        \A k \in 1..Len(expr.added) :
            EnumrFolds(k) =>
                IF OutsideInt(EnumrRuleValue(k))
                THEN expr.added[k] > 0 /\ ~expr.enumr_value[k].assigned
                ELSE expr.added[k] = 0 /\ expr.enumr_value[k] = EnumrValue(EnumrRuleValue(k))

(***************************************************************************)
(* SpecSwitch: analyze_switch_statement_after and the traversal of the     *)
(* switch body it runs, with swbody_labeled_statement_after on every       *)
(* labeled statement in the order the traverser leaves them.               *)
(*                                                                         *)
(* A labeled statement is [kind, inner, expression]: kind "id", "case" or  *)
(* "default"; inner when the nearest enclosing switch is a switch nested   *)
(* in the one analyzed.  In a diagnostic, syn is the number of the labeled *)
(* statement, 0 for the switch statement or its condition.                 *)
(***************************************************************************)
LabeledStatement(kind, inner, e) == [kind |-> kind, inner |-> inner, expression |-> e]

\* integer_promotions on the class of the controlling expression
integer_promotions(class) ==
    IF class \in {"CTC_CHAR", "CTC_SHORT_INT", "CTC_INT"} THEN "CTC_INT" ELSE class

SwitchWarning == "switch statements are not checked for identifiers with variably-modified types, use with your own risk"
SwitchNotInteger == "controlling expression of a switch statement must be of integer type"
CaseNotConstant == "case statement must have a constant expression"
CaseSameValue == "case statement on line %u has expression with the same value"
MultipleDefault == "multiple default cases are not allowed within a switch statement"

\* lines 2455-2463: one diagnostic per recorded case of the same lstmt_value
RECURSIVE SameValueErrors(_, _, _, _)
SameValueErrors(sw, k, value, j) ==
    IF j > Len(sw.swstmt_cases) THEN <<>>
    ELSE (IF sw.lstmt_value[sw.swstmt_cases[j]] = value
          THEN <<error_init(k, CaseSameValue)>> ELSE <<>>)
         \o SameValueErrors(sw, k, value, j + 1)

\* lines 2441-2465: a case label of the switch analyzed
swbody_case(sw, k, lstmt) ==
    IF ~constexpr_evaluate_enumr(lstmt.expression).succeeded
    THEN [sw EXCEPT !.diags = sw.diags \o <<error_init(k, CaseNotConstant)>>]
    ELSE [sw EXCEPT
            !.lstmt_value[k] = constexpr_convert_class(lstmt.expression.value,
                                                       integer_promotions(sw.condition)),
            !.diags = sw.diags
                      \o SameValueErrors(sw, k,
                            constexpr_convert_class(lstmt.expression.value,
                                                    integer_promotions(sw.condition)), 1),
            !.swstmt_cases = Append(sw.swstmt_cases, k)]

\* swbody_labeled_statement_after without the test of the enclosing switch
swbody_labeled_statement_after_any_switch(sw, k, lstmt) ==
    IF lstmt.kind = "id" THEN sw
    ELSE IF lstmt.kind = "case" THEN swbody_case(sw, k, lstmt)
    ELSE IF sw.swstmt_default # 0
         THEN [sw EXCEPT !.diags = sw.diags \o <<error_init(k, MultipleDefault)>>]
         ELSE [sw EXCEPT !.swstmt_default = k]

\* lines 2433-2476: sw is the switch statement and the diagnostics so far
swbody_labeled_statement_after(sw, k, lstmt) ==
    IF lstmt.kind = "id" THEN sw
    ELSE IF lstmt.inner THEN sw
    ELSE IF lstmt.kind = "case" THEN swbody_case(sw, k, lstmt)
    ELSE IF sw.swstmt_default # 0
         THEN [sw EXCEPT !.diags = sw.diags \o <<error_init(k, MultipleDefault)>>]
         ELSE [sw EXCEPT !.swstmt_default = k]

\* traverse(swb_trav): the labeled statements from number k on
RECURSIVE traverse_swbody(_, _, _)
traverse_swbody(sw, labels, k) ==
    IF k > Len(labels) THEN sw
    ELSE traverse_swbody(swbody_labeled_statement_after(sw, k, labels[k]), labels, k + 1)

\* lines 2478-2494
analyze_switch_statement_after(condition, labels) ==
    IF condition \notin {"CTC_CHAR", "CTC_INT", "CTC_LONG_INT"}
    THEN [condition |-> condition, swstmt_cases |-> <<>>, swstmt_default |-> 0,
          lstmt_value |-> [k \in 1..Len(labels) |-> I64(0, 0)],
          diags |-> <<error_init(0, SwitchWarning), error_init(0, SwitchNotInteger)>>]
    ELSE traverse_swbody(
             [condition |-> condition, swstmt_cases |-> <<>>, swstmt_default |-> 0,
              lstmt_value |-> [k \in 1..Len(labels) |-> I64(0, 0)],
              diags |-> <<error_init(0, SwitchWarning)>>],
             labels, 1)

MaxLabels == 3

\* case 0, 1, 4294967296 and a case that is no constant expression
CaseExpressions ==
    {ConstantExpression(I64(0, 0)), ConstantExpression(I64(0, 1)),
     ConstantExpression(I64(65536, 0)), OtherExpression}

LabeledStatements ==
    {LabeledStatement("id", FALSE, NoExpression)}
    \cup {LabeledStatement("default", i, NoExpression) : i \in BOOLEAN}
    \cup {LabeledStatement("case", i, e) : i \in BOOLEAN, e \in CaseExpressions}

InitSwitch ==
    /\ BackendIdle
    /\ InitIdle
    /\ assign = [pc |-> "idle"]
    /\ \E c \in {"CTC_CHAR", "CTC_INT", "CTC_LONG_INT", "CTC_DOUBLE"}, n \in 1..MaxLabels :
          \E ls \in [1..n -> LabeledStatements] :
              expr = [pc |-> "switch", swstmt_condition |-> c, labels |-> ls,
                      swstmt_cases |-> <<>>, swstmt_default |-> 0]

AnalyzeSwitchStatement ==
    /\ expr.pc = "switch"
    /\ LET sw == analyze_switch_statement_after(expr.swstmt_condition, expr.labels)
       IN  /\ expr' = [expr EXCEPT !.pc = "analyzed", !.swstmt_cases = sw.swstmt_cases,
                                   !.swstmt_default = sw.swstmt_default]
           /\ errors' = errors \o sw.diags
    /\ UNCHANGED <<backendVars, ipc, decl, types, sem, image, writes, assign>>

SpecSwitch == InitSwitch /\ [][AnalyzeSwitchStatement]_vars

\* the case labels of the switch analyzed that have a constant expression,
\* and the value of one converted to the promoted type of the condition
OwnCases ==
    {k \in 1..Len(expr.labels) :
        /\ expr.labels[k].kind = "case"
        /\ ~expr.labels[k].inner
        /\ expr.labels[k].expression.constant}
OwnDefaults ==
    {k \in 1..Len(expr.labels) : expr.labels[k].kind = "default" /\ ~expr.labels[k].inner}
InnerLabels == {k \in 1..Len(expr.labels) : expr.labels[k].kind # "id" /\ expr.labels[k].inner}
ConvertedCase(k) ==
    IF integer_promotions(expr.swstmt_condition) = "CTC_INT"
    THEN I64(((expr.labels[k].expression.value.hi + 32768) % 65536) - 32768,
             expr.labels[k].expression.value.lo)
    ELSE expr.labels[k].expression.value

\* the labeled statements a diagnostic of the given message is attached to
Diagnosed(msg) == {errors[i].syn : i \in {j \in 1..Len(errors) : errors[j].msg = msg}}

(***************************************************************************)
(* C18: after the analysis of a switch statement with an integer           *)
(* controlling expression, every case label of the switch whose converted  *)
(* value equals that of another case label of the switch has a diagnostic, *)
(* a case label that equals no other has none, every default label of the  *)
(* switch but the first has one, and the labels of a nested switch are     *)
(* neither recorded nor diagnosed.                                         *)
(***************************************************************************)
C18_DuplicateLabelsDiagnosed ==
    (expr.pc = "analyzed" /\ expr.swstmt_condition # "CTC_DOUBLE") =>
        /\ \A k \in OwnCases :
              k \in Diagnosed(CaseSameValue)
                  <=> \E j \in OwnCases \ {k} : ConvertedCase(j) = ConvertedCase(k)
        /\ \A k \in OwnDefaults :
              k \in Diagnosed(MultipleDefault) <=> \E j \in OwnDefaults : j < k
        /\ \A k \in InnerLabels :
              /\ k \notin {expr.swstmt_cases[j] : j \in 1..Len(expr.swstmt_cases)}
              /\ k # expr.swstmt_default
              /\ k \notin {errors[i].syn : i \in 1..Len(errors)}

\* the diagnostics of the given message attached to labeled statement k
DiagnosticsAt(k, msg) == {i \in 1..Len(errors) : errors[i].syn = k /\ errors[i].msg = msg}

(***************************************************************************)
(* C18, amended: after the analysis of a switch statement with an integer  *)
(* controlling expression, every case label of the switch has one          *)
(* diagnostic for each case label of the switch visited before it whose    *)
(* converted value equals its own, so the first label of a value has none; *)
(* every default label of the switch but the first visited has one; the    *)
(* labels of a nested switch are neither recorded nor diagnosed.           *)
(***************************************************************************)
C18_LaterDuplicateDiagnosed ==
    (expr.pc = "analyzed" /\ expr.swstmt_condition # "CTC_DOUBLE") =>
        /\ \A k \in OwnCases :
              Cardinality(DiagnosticsAt(k, CaseSameValue))
                  = Cardinality({j \in OwnCases : j < k /\ ConvertedCase(j) = ConvertedCase(k)})
        /\ \A k \in OwnDefaults :
              Cardinality(DiagnosticsAt(k, MultipleDefault))
                  = IF \E j \in OwnDefaults : j < k THEN 1 ELSE 0
        /\ \A k \in InnerLabels :
              /\ k \notin {expr.swstmt_cases[j] : j \in 1..Len(expr.swstmt_cases)}
              /\ k # expr.swstmt_default
              /\ k \notin {errors[i].syn : i \in 1..Len(errors)}

\* switch on a char: case 0 of a nested switch, then case 0 and case
\* 4294967296 of the switch itself, equal once converted to int
C18_ConvertedDuplicateBesideInnerLabel ==
    /\ expr.pc = "analyzed"
    /\ expr.swstmt_condition = "CTC_CHAR"
    /\ expr.labels = <<LabeledStatement("case", TRUE, ConstantExpression(I64(0, 0))),
                       LabeledStatement("case", FALSE, ConstantExpression(I64(0, 0))),
                       LabeledStatement("case", FALSE, ConstantExpression(I64(65536, 0)))>>
    /\ expr.swstmt_cases = <<2, 3>>
    /\ Diagnosed(CaseSameValue) = {3}

(***************************************************************************)
(* SpecAddr: analyze_static_initializer_after on an initializer that is    *)
(* no list (lines 1112-1153): an address constant, alone or with an        *)
(* integer constant expression added or subtracted, or an integer          *)
(* constant.                                                               *)
(*                                                                         *)
(* An expression is [type, class, pointee_size, ce]: the class of its      *)
(* ctype, the size of the type its ctype is derived from, and what         *)
(* constexpr_evaluate makes of it.                                         *)
(***************************************************************************)
AddressResult(sy, offset, negative) ==
    [type |-> "CE_ADDRESS", succeeded |-> TRUE, sy |-> sy, offset |-> offset,
     negative_offset |-> negative, value |-> 0, size |-> POINTER_WIDTH]
IntegerResult(v, size) ==
    [type |-> "CE_INTEGER", succeeded |-> TRUE, sy |-> "", offset |-> 0,
     negative_offset |-> FALSE, value |-> v, size |-> size]
FailedResult ==
    [type |-> "CE_INTEGER", succeeded |-> FALSE, sy |-> "", offset |-> 0,
     negative_offset |-> FALSE, value |-> 0, size |-> 0]

Operand(class, pointee_size, ce) ==
    [type |-> "SC_PRIMARY_EXPRESSION", class |-> class, pointee_size |-> pointee_size,
     ce |-> ce, bexpr_lhs |-> <<>>, bexpr_rhs |-> <<>>]
BinaryExpression(type, class, pointee_size, lhs, rhs) ==
    [type |-> type, class |-> class, pointee_size |-> pointee_size, ce |-> FailedResult,
     bexpr_lhs |-> <<lhs>>, bexpr_rhs |-> <<rhs>>]

\* constexpr_evaluate on the expressions of SpecAddr: an operand folds to its
\* result, a sum or difference of integer constants to an integer
constexpr_evaluate_address(syn) ==
    IF syn.bexpr_lhs = <<>> THEN syn.ce
    ELSE IF syn.bexpr_lhs[1].ce.succeeded /\ syn.bexpr_rhs[1].ce.succeeded
            /\ syn.bexpr_lhs[1].ce.type = "CE_INTEGER" /\ syn.bexpr_rhs[1].ce.type = "CE_INTEGER"
         THEN IntegerResult(IF syn.type = "SC_ADDITION_EXPRESSION"
                            THEN syn.bexpr_lhs[1].ce.value + syn.bexpr_rhs[1].ce.value
                            ELSE syn.bexpr_lhs[1].ce.value - syn.bexpr_rhs[1].ce.value, 4)
         ELSE FailedResult

\* constexpr_evaluate_integer on them
constexpr_evaluate_offset(syn) ==
    IF constexpr_evaluate_address(syn).type = "CE_INTEGER" THEN constexpr_evaluate_address(syn)
    ELSE FailedResult

\* byte k (from 0) of a 64-bit two's complement integer of small magnitude
RECURSIVE ByteOf(_, _)
ByteOf(v, k) ==
    IF v < 0 THEN 255 - ByteOf((0 - v) - 1, k)
    ELSE IF k >= 4 THEN 0
    ELSE (v \div (256 ^ k)) % 256

\* memcpy(sy->data + base, the bytes of v, n)
memcpy(bytes, base, v, n) ==
    [b \in DOMAIN bytes |-> IF base + 1 <= b /\ b <= base + n THEN ByteOf(v, b - base - 1)
                            ELSE bytes[b]]

\* lines 1114-1119
offset_lhs(syn) ==
    /\ syn.type \in {"SC_ADDITION_EXPRESSION", "SC_SUBTRACTION_EXPRESSION"}
    /\ syn.bexpr_lhs[1].class = "CTC_POINTER"
offset_rhs(syn) ==
    /\ syn.type = "SC_ADDITION_EXPRESSION"
    /\ syn.bexpr_rhs[1].class = "CTC_POINTER"
offset_included(syn) == offset_lhs(syn) \/ offset_rhs(syn)
ptr_side(syn) == IF offset_lhs(syn) THEN syn.bexpr_lhs[1] ELSE syn.bexpr_rhs[1]
offset_side(syn) == IF offset_lhs(syn) THEN syn.bexpr_rhs[1] ELSE syn.bexpr_lhs[1]

\* lines 1139-1147 without the size of the pointed-to type
address_addend_unscaled(syn, ce, oce) ==
    IF ~offset_included(syn) THEN ce.offset * (IF ce.negative_offset THEN 0 - 1 ELSE 1)
    ELSE IF syn.type = "SC_ADDITION_EXPRESSION"
         THEN ce.offset * (IF ce.negative_offset THEN 0 - 1 ELSE 1) + oce.value
         ELSE ce.offset * (IF ce.negative_offset THEN 0 - 1 ELSE 1) - oce.value

\* lines 1139-1147: the offset stored for an address constant
address_addend(syn, ce, oce) ==
    IF ~offset_included(syn) THEN ce.offset * (IF ce.negative_offset THEN 0 - 1 ELSE 1)
    ELSE IF syn.type = "SC_ADDITION_EXPRESSION"
         THEN ce.offset * (IF ce.negative_offset THEN 0 - 1 ELSE 1)
              + (oce.value * ptr_side(syn).pointee_size)
         ELSE ce.offset * (IF ce.negative_offset THEN 0 - 1 ELSE 1)
              - (oce.value * ptr_side(syn).pointee_size)

\* lines 1120-1153, both evaluations succeeded; sy is [data, addresses]
static_initializer_store(sy, syn, base, ce, oce) ==
    IF ce.type = "CE_INTEGER"
    THEN [sy EXCEPT !.data = memcpy(sy.data, base, ce.value, ce.size)]
    ELSE [data |-> memcpy(sy.data, base, address_addend(syn, ce, oce), POINTER_WIDTH),
          addresses |-> Append(sy.addresses, [data_location |-> base, sy |-> ce.sy])]

\* lines 1112-1164: the symbol afterwards and the diagnostics appended
static_initializer_leaf(sy, syn, base, ce, oce) ==
    IF ce.succeeded /\ oce.succeeded
    THEN [sy |-> static_initializer_store(sy, syn, base, ce, oce), diags |-> <<>>]
    ELSE [sy |-> sy,
          diags |-> (IF ~ce.succeeded
                     THEN <<error_init(syn, "in static initialization: %s")>> ELSE <<>>)
                    \o (IF ~oce.succeeded
                        THEN <<error_init(offset_side(syn),
                                 "in address constant offset of static initialization: %s")>>
                        ELSE <<>>)]

\* &x, &y.b with b at offset 4, and an address 4 bytes before x; pointers to
\* char, int and long
AddressConstants ==
    {Operand("CTC_POINTER", size, a) :
        size \in {1, 4, 8},
        a \in {AddressResult("x", 0, FALSE), AddressResult("y", 4, FALSE),
               AddressResult("x", 4, TRUE)}}

\* -1, 0, 2 and an int that is no constant
IntegerOperands ==
    {Operand("CTC_INT", 0, IntegerResult(v, 4)) : v \in {0 - 1, 0, 2}}
    \cup {Operand("CTC_INT", 0, FailedResult)}

StaticInitializers ==
    AddressConstants
    \cup IntegerOperands
    \cup {BinaryExpression("SC_ADDITION_EXPRESSION", "CTC_POINTER", p.pointee_size, p, n) :
            p \in AddressConstants, n \in IntegerOperands}
    \cup {BinaryExpression("SC_ADDITION_EXPRESSION", "CTC_POINTER", p.pointee_size, n, p) :
            p \in AddressConstants, n \in IntegerOperands}
    \cup {BinaryExpression("SC_SUBTRACTION_EXPRESSION", "CTC_POINTER", p.pointee_size, p, n) :
            p \in AddressConstants, n \in IntegerOperands}
    \cup {BinaryExpression("SC_ADDITION_EXPRESSION", "CTC_INT", 0, n, n) : n \in IntegerOperands}

\* the symbol initialized has room for two pointers; the leaf is the first,
\* or the second after the first was given an address
InitAddr ==
    /\ BackendIdle
    /\ InitIdle
    /\ assign = [pc |-> "idle"]
    /\ \E syn \in StaticInitializers, base \in {0, POINTER_WIDTH} :
          expr = [pc |-> "leaf", syn |-> syn, base |-> base,
                  before |-> [data |-> [b \in 1..(2 * POINTER_WIDTH) |-> 0],
                              addresses |-> IF base = 0 THEN <<>>
                                            ELSE <<[data_location |-> 0, sy |-> "y"]>>],
                  sy |-> [data |-> [b \in 1..(2 * POINTER_WIDTH) |-> 0],
                          addresses |-> IF base = 0 THEN <<>>
                                        ELSE <<[data_location |-> 0, sy |-> "y"]>>]]

AnalyzeStaticLeaf ==
    /\ expr.pc = "leaf"
    /\ LET r == static_initializer_leaf(
                    expr.sy, expr.syn, expr.base,
                    constexpr_evaluate_address(IF offset_included(expr.syn)
                                               THEN ptr_side(expr.syn) ELSE expr.syn),
                    IF offset_included(expr.syn)
                    THEN constexpr_evaluate_offset(offset_side(expr.syn))
                    ELSE IntegerResult(0, 0))
       IN  /\ expr' = [expr EXCEPT !.pc = "stored", !.sy = r.sy]
           /\ errors' = errors \o r.diags
    /\ UNCHANGED <<backendVars, ipc, decl, types, sem, image, writes, assign>>

SpecAddr == InitAddr /\ [][AnalyzeStaticLeaf]_vars

\* the initializer is address constant + n, n + address constant or address
\* constant - n, with n an integer constant expression
AddressPlusMinus ==
    /\ expr.syn.bexpr_lhs # <<>>
    /\ \/ /\ expr.syn.bexpr_lhs[1] \in AddressConstants
          /\ expr.syn.bexpr_rhs[1].ce.type = "CE_INTEGER" /\ expr.syn.bexpr_rhs[1].ce.succeeded
       \/ /\ expr.syn.type = "SC_ADDITION_EXPRESSION"
          /\ expr.syn.bexpr_rhs[1] \in AddressConstants
          /\ expr.syn.bexpr_lhs[1].ce.type = "CE_INTEGER" /\ expr.syn.bexpr_lhs[1].ce.succeeded

\* its address constant and its n, negated under a minus
AddressOperand ==
    IF expr.syn.bexpr_lhs = <<>> THEN expr.syn
    ELSE IF expr.syn.bexpr_lhs[1] \in AddressConstants THEN expr.syn.bexpr_lhs[1]
    ELSE expr.syn.bexpr_rhs[1]
SignedCount ==
    IF expr.syn.bexpr_lhs = <<>> THEN 0
    ELSE IF expr.syn.bexpr_lhs[1] \in AddressConstants
         THEN (IF expr.syn.type = "SC_ADDITION_EXPRESSION" THEN expr.syn.bexpr_rhs[1].ce.value
               ELSE 0 - expr.syn.bexpr_rhs[1].ce.value)
         ELSE expr.syn.bexpr_lhs[1].ce.value
SignedOffset ==
    IF AddressOperand.ce.negative_offset THEN 0 - AddressOperand.ce.offset
    ELSE AddressOperand.ce.offset

\* the 64-bit little-endian two's complement integer in 8 bytes, of small magnitude
LittleEndian(b) ==
    IF b[8] < 128
    THEN b[1] + 256 * b[2] + 65536 * b[3] + 16777216 * b[4]
    ELSE 0 - 1 - ((255 - b[1]) + 256 * (255 - b[2]) + 65536 * (255 - b[3])
                  + 16777216 * (255 - b[4]))
StoredBytes == [k \in 1..POINTER_WIDTH |-> expr.sy.data[expr.base + k]]

(***************************************************************************)
(* C19: for a static initializer that is an address constant, alone or     *)
(* plus or minus an integer constant expression n, exactly one relocation  *)
(* is appended to the symbol, with the data offset of the leaf and the     *)
(* target symbol of the address constant, and the 8 bytes at that offset   *)
(* hold the address constant's signed offset plus or minus n times the     *)
(* size of the pointed-to type; the bytes elsewhere are left as they were. *)
(***************************************************************************)
C19_AddressConstantRelocation ==
    (expr.pc = "stored" /\ (expr.syn \in AddressConstants \/ AddressPlusMinus)) =>
        /\ expr.sy.addresses
              = Append(expr.before.addresses,
                       [data_location |-> expr.base, sy |-> AddressOperand.ce.sy])
        /\ LittleEndian(StoredBytes) = SignedOffset + SignedCount * AddressOperand.pointee_size
        /\ \A k \in 5..POINTER_WIDTH : StoredBytes[k] = StoredBytes[POINTER_WIDTH]
        /\ \A b \in DOMAIN expr.sy.data :
              (b <= expr.base \/ b > expr.base + POINTER_WIDTH)
                  => expr.sy.data[b] = expr.before.data[b]
        /\ errors = <<>>

\* int *p = &x + 2: one relocation at 0 to x, image 08 00 00 00 00 00 00 00
C19_AddressOfIntPlusTwo ==
    /\ expr.pc = "stored"
    /\ expr.base = 0
    /\ expr.syn = BinaryExpression("SC_ADDITION_EXPRESSION", "CTC_POINTER", 4,
                      Operand("CTC_POINTER", 4, AddressResult("x", 0, FALSE)),
                      Operand("CTC_INT", 0, IntegerResult(2, 4)))
    /\ expr.sy.addresses = <<[data_location |-> 0, sy |-> "x"]>>
    /\ StoredBytes = <<8, 0, 0, 0, 0, 0, 0, 0>>

(***************************************************************************)
(* The offsets recorded within one initializer list (SpecInit).            *)
(***************************************************************************)
ListPaths == {p \in PathsOf(decl.init, <<>>) : NodeAt(decl.init, p).kind = "list"}

\* the initializer at path p was given a place: a target type or, for a
\* nested list, an offset, and not the mark -1 of an initializer past the object
Placed(p) == sem[p] # Unelaborated /\ sem[p].offset # -1

EmptyFile ==
    [sse32_zero_checker |-> "", sse64_zero_checker |-> "",
     sse32_i64_limit |-> "", sse64_i64_limit |-> "", rodata |-> <<>>]

\* x86_64_get_sse_zero_checker without the test of the file's field
x86_64_get_sse_zero_checker_always_adds(class, file) ==
    IF class = "CTC_FLOAT"
    THEN [checker |-> "__sse32_zero_checker",
          file |-> [file EXCEPT !.sse32_zero_checker = "__sse32_zero_checker",
                                !.rodata = Append(@, "__sse32_zero_checker")]]
    ELSE [checker |-> "__sse64_zero_checker",
          file |-> [file EXCEPT !.sse64_zero_checker = "__sse64_zero_checker",
                                !.rodata = Append(@, "__sse64_zero_checker")]]

\* lines 1218-1252: the symbol and the file afterwards
x86_64_get_sse_zero_checker(class, file) ==
    IF (IF class = "CTC_FLOAT" THEN file.sse32_zero_checker ELSE file.sse64_zero_checker) # ""
    THEN [checker |-> IF class = "CTC_FLOAT" THEN file.sse32_zero_checker
                      ELSE file.sse64_zero_checker,
          file |-> file]
    ELSE IF class = "CTC_FLOAT"
    THEN [checker |-> "__sse32_zero_checker",
          file |-> [file EXCEPT !.sse32_zero_checker = "__sse32_zero_checker",
                                !.rodata = Append(@, "__sse32_zero_checker")]]
    ELSE [checker |-> "__sse64_zero_checker",
          file |-> [file EXCEPT !.sse64_zero_checker = "__sse64_zero_checker",
                                !.rodata = Append(@, "__sse64_zero_checker")]]

\* lines 1793-1830
x86_64_get_sse_i64_limit(class, file) ==
    IF (IF class = "CTC_FLOAT" THEN file.sse32_i64_limit ELSE file.sse64_i64_limit) # ""
    THEN [checker |-> IF class = "CTC_FLOAT" THEN file.sse32_i64_limit
                      ELSE file.sse64_i64_limit,
          file |-> file]
    ELSE IF class = "CTC_FLOAT"
    THEN [checker |-> "__sse32_i64_limit",
          file |-> [file EXCEPT !.sse32_i64_limit = "__sse32_i64_limit",
                                !.rodata = Append(@, "__sse32_i64_limit")]]
    ELSE [checker |-> "__sse64_i64_limit",
          file |-> [file EXCEPT !.sse64_i64_limit = "__sse64_i64_limit",
                                !.rodata = Append(@, "__sse64_i64_limit")]]

MaxLowered == 3

SseClasses == {"CTC_FLOAT", "CTC_DOUBLE"}

InitRodata ==
    /\ AnalyzerIdle
    /\ bpc = "lowering"
    /\ aroutine = [uses_varargs |-> FALSE, global |-> FALSE]
    /\ routine = IdleRoutine
    /\ symtab = <<>>
    /\ x86op = <<>>
    /\ out = <<>>
    /\ data = [pc |-> "lowering", file |-> EmptyFile, lowered |-> <<>>]

\* the instruction has been lowered with the symbol got by r
Lowered(air, class, r) ==
    /\ data' = [data EXCEPT !.file = r.file,
                            !.lowered = Append(@, [air |-> air, class |-> class,
                                                   ref |-> r.checker,
                                                   rodata |-> r.file.rodata])]
    /\ UNCHANGED <<bpc, aroutine, routine, symtab, x86op, out, analyzerVars>>

\* lines 1266-1296: AIR_NOT on an integer, a pointer, a float or a double
GenerateNot ==
    /\ data.pc = "lowering"
    /\ Len(data.lowered) < MaxLowered
    /\ \E class \in SseClasses \cup {"CTC_INT", "CTC_POINTER"} :
          IF class \in SseClasses
          THEN Lowered("AIR_NOT", class, x86_64_get_sse_zero_checker(class, data.file))
          ELSE Lowered("AIR_NOT", class, [checker |-> "", file |-> data.file])

\* lines 1379-1390: AIR_JZ / AIR_JNZ on a float or a double
GenerateSseConditionalJumpTest ==
    /\ data.pc = "lowering"
    /\ Len(data.lowered) < MaxLowered
    /\ \E class \in SseClasses, air \in {"AIR_JZ", "AIR_JNZ"} :
          Lowered(air, class, x86_64_get_sse_zero_checker(class, data.file))

\* lines 1863-1867: a float or a double converted to unsigned long long
GenerateSse2u64 ==
    /\ data.pc = "lowering"
    /\ Len(data.lowered) < MaxLowered
    /\ \E class \in SseClasses :
          Lowered("AIR_S2UI", class, x86_64_get_sse_i64_limit(class, data.file))

\* lines 1986-1991: unsigned long long converted to a float or a double
GenerateU642sse ==
    /\ data.pc = "lowering"
    /\ Len(data.lowered) < MaxLowered
    /\ \E class \in SseClasses :
          Lowered("AIR_UI2S", class, x86_64_get_sse_i64_limit(class, data.file))

NextRodata ==
    \/ GenerateNot
    \/ GenerateSseConditionalJumpTest
    \/ GenerateSse2u64
    \/ GenerateU642sse

SpecRodata == InitRodata /\ [][NextRodata]_vars

HelperSymbols ==
    {"__sse32_zero_checker", "__sse64_zero_checker", "__sse32_i64_limit", "__sse64_i64_limit"}

\* the helper symbol a lowered instruction needs, "" if none
NeededBy(l) ==
    CASE l.air \in {"AIR_NOT", "AIR_JZ", "AIR_JNZ"} /\ l.class = "CTC_FLOAT" -> "__sse32_zero_checker"
      [] l.air \in {"AIR_NOT", "AIR_JZ", "AIR_JNZ"} /\ l.class = "CTC_DOUBLE" -> "__sse64_zero_checker"
      [] l.air \in {"AIR_S2UI", "AIR_UI2S"} /\ l.class = "CTC_FLOAT" -> "__sse32_i64_limit"
      [] l.air \in {"AIR_S2UI", "AIR_UI2S"} /\ l.class = "CTC_DOUBLE" -> "__sse64_i64_limit"
      [] OTHER -> ""

EntriesOf(rodata, name) == {i \in 1..Len(rodata) : rodata[i] = name}

(***************************************************************************)
(* C22: after any sequence of lowered instructions of one file, rodata     *)
(* holds at most one entry for each helper symbol; after each instruction  *)
(* the entry exists exactly when that instruction or an earlier one needed *)
(* it, so it is created at the first need; and every instruction that      *)
(* needs a helper refers to that symbol.                                   *)
(***************************************************************************)
C22_HelperDataCreatedOnce ==
    data.pc = "lowering" =>
        /\ \A name \in HelperSymbols : Cardinality(EntriesOf(data.file.rodata, name)) <= 1
        /\ \A k \in 1..Len(data.lowered) : \A name \in HelperSymbols :
              (EntriesOf(data.lowered[k].rodata, name) # {})
                  <=> \E j \in 1..k : NeededBy(data.lowered[j]) = name
        /\ \A k \in 1..Len(data.lowered) : data.lowered[k].ref = NeededBy(data.lowered[k])
        /\ Len(data.lowered) > 0 => data.lowered[Len(data.lowered)].rodata = data.file.rodata

\* !x on a float, an integer !, then a jump test on a float: one entry, reused
C22_SecondNeedReuses ==
    /\ data.pc = "lowering"
    /\ Len(data.lowered) = 3
    /\ data.lowered[1].air = "AIR_NOT" /\ data.lowered[1].class = "CTC_FLOAT"
    /\ data.lowered[2].air = "AIR_NOT" /\ data.lowered[2].class = "CTC_INT"
    /\ data.lowered[3].air = "AIR_JZ" /\ data.lowered[3].class = "CTC_FLOAT"
    /\ data.lowered[3].ref = "__sse32_zero_checker"
    /\ data.file.rodata = <<"__sse32_zero_checker">>

(***************************************************************************)
(* SpecExec: the instructions x86_generate emits for one AIR instruction,  *)
(* executed on the operands' values.  A 64-bit word is the set of its one  *)
(* bits (bit 0 the lowest); a floating value is [nan, neg, mag], mag the   *)
(* bits of its integral magnitude.  The result operand ops[0] lives in     *)
(* rax, integer operands ops[1], ops[2] in rcx, rdx and floating operands  *)
(* in xmm0, xmm1.                                                          *)
(***************************************************************************)
Bits64 == 0..63

SizeBits(size) ==
    CASE size = "X86SZ_BYTE" -> 8
      [] size = "X86SZ_WORD" -> 16
      [] size = "X86SZ_DWORD" -> 32
      [] OTHER -> 64

Truncate(w, n) == {i \in w : i < n}

\* unsigned order of two words: the highest bit they differ in is b's
ULess(a, b) == \E i \in b \ a : \A j \in a \ b : j < i

\* signed order of two words of n bits
SLess(a, b, n) ==
    IF ((n - 1) \in a) # ((n - 1) \in b) THEN (n - 1) \in a ELSE ULess(a, b)

\* w + 1 (mod 2^64)
Inc(w) ==
    IF w = Bits64
    THEN {}
    ELSE LET k == CHOOSE k \in Bits64 \ w : \A j \in Bits64 \ w : k <= j
         IN  {i \in w : i > k} \cup {k}

\* -w (mod 2^64)
TwosNeg(w) == Inc(Bits64 \ w)

\* the low byte of a word as a number, and a number below 256 as a word
ByteValue(w) == LET RECURSIVE sum(_)
                    sum(i) == IF i > 7 THEN 0 ELSE (IF i \in w THEN 2^i ELSE 0) + sum(i + 1)
                IN  sum(0)

ByteWord(v) == {i \in 0..7 : (v \div (2^i)) % 2 = 1}

Float(nan, neg, mag) == [nan |-> nan, neg |-> neg, mag |-> mag]

\* x < y for two floating values that are not NaN
FloatLess(x, y) ==
    CASE x.neg /\ ~y.neg -> x.mag # {} \/ y.mag # {}
      [] ~x.neg /\ y.neg -> FALSE
      [] ~x.neg /\ ~y.neg -> ULess(x.mag, y.mag)
      [] OTHER -> ULess(y.mag, x.mag)

Unordered(x, y) == x.nan \/ y.nan

\* 9223372036854775808.0, the value stored at __sse32_i64_limit and __sse64_i64_limit
I64Limit == Float(FALSE, FALSE, {63})

\* x - 9223372036854775808.0 (subss/subsd with the limit as source)
FloatSubLimit(x) ==
    CASE x.nan -> x
      [] ~x.neg /\ (\E i \in x.mag : i >= 63) -> Float(FALSE, FALSE, x.mag \ {63})
      [] ~x.neg /\ x.mag = {} -> Float(FALSE, TRUE, {63})
      [] ~x.neg -> Float(FALSE, TRUE, TwosNeg(x.mag) \ {63})
      [] 63 \notin x.mag -> Float(FALSE, TRUE, x.mag \cup {63})
      [] OTHER -> Float(FALSE, TRUE, (x.mag \ {63}) \cup {64})

\* cvttss2si/cvttsd2si to a 64-bit register: the integer indefinite value
\* 0x8000000000000000 when the source is NaN or outside the signed range
cvtt2si(x) ==
    CASE x.nan -> {63}
      [] \E i \in x.mag : i >= 63 -> {63}
      [] x.neg -> TwosNeg(x.mag)
      [] OTHER -> x.mag

Flags(cf, zf, pf, lt) == [CF |-> cf, ZF |-> zf, PF |-> pf, LT |-> lt]

\* comiss/comisd/ucomiss/ucomisd src, dst: dst is compared with src; SF and OF
\* are cleared (LT stands for SF # OF)
FlagsOfComis(src, dst) ==
    CASE Unordered(src, dst) -> Flags(TRUE, TRUE, TRUE, FALSE)
      [] FloatLess(dst, src) -> Flags(TRUE, FALSE, FALSE, FALSE)
      [] FloatLess(src, dst) -> Flags(FALSE, FALSE, FALSE, FALSE)
      [] OTHER -> Flags(FALSE, TRUE, FALSE, FALSE)

\* cmp src, dst at n bits: the flags of dst - src
FlagsOfCmp(src, dst, n) ==
    Flags(ULess(Truncate(dst, n), Truncate(src, n)),
          Truncate(dst, n) = Truncate(src, n),
          Cardinality(ByteWord((256 + ByteValue(dst) - ByteValue(src)) % 256)) % 2 = 0,
          SLess(Truncate(dst, n), Truncate(src, n), n))

\* the condition a setcc or a conditional jump tests
Condition(type, f) ==
    CASE type \in {"X86I_SETE", "X86I_JE"} -> f.ZF
      [] type \in {"X86I_SETNE", "X86I_JNE"} -> ~f.ZF
      [] type = "X86I_SETL" -> f.LT
      [] type = "X86I_SETLE" -> f.LT \/ f.ZF
      [] type = "X86I_SETG" -> ~f.LT /\ ~f.ZF
      [] type = "X86I_SETGE" -> ~f.LT
      [] type = "X86I_SETA" -> ~f.CF /\ ~f.ZF
      [] type \in {"X86I_SETNB", "X86I_JNB"} -> ~f.CF
      [] type = "X86I_SETP" -> f.PF
      [] type = "X86I_SETNP" -> ~f.PF
      [] OTHER -> TRUE

Immediate(v) == [make_operand_immediate("imm") EXCEPT !.disp = v]

SizedInsn(t, size, o1, o2) == [Insn(t, o1, o2) EXCEPT !.size = size]

ReadFloat(op, regs) == IF op.type = "X86OP_LABEL_REF" THEN I64Limit ELSE regs[op.reg]

ReadWord(op, regs) == IF op.type = "X86OP_IMMEDIATE" THEN ByteWord(op.disp) ELSE regs[op.reg]

\* a write of the low n bits of a register: a 32-bit write clears the upper
\* half, an 8- or 16-bit write keeps the rest of the register
WriteWord(old, new, n) ==
    IF n >= 32 THEN Truncate(new, n) ELSE {i \in old : i >= n} \cup Truncate(new, n)

\* the position of the label a jump names
LabelIndex(insns, op) ==
    CHOOSE k \in 1..Len(insns) : insns[k].type = "X86I_LABEL" /\ insns[k].op1 = op

SetccTypes ==
    {"X86I_SETE", "X86I_SETNE", "X86I_SETL", "X86I_SETLE", "X86I_SETG", "X86I_SETGE",
     "X86I_SETA", "X86I_SETNB", "X86I_SETP", "X86I_SETNP"}

\* the registers after one instruction
ExecRegs(insn, regs, f) ==
    CASE insn.type \in SetccTypes ->
            [regs EXCEPT ![insn.op1.reg] =
                WriteWord(@, IF Condition(insn.type, f) THEN {0} ELSE {}, 8)]
      [] insn.type = "X86I_MOV" ->
            [regs EXCEPT ![insn.op2.reg] =
                WriteWord(@, ReadWord(insn.op1, regs), SizeBits(insn.size))]
      [] insn.type \in {"X86I_CVTTSS2SI", "X86I_CVTTSD2SI"} ->
            [regs EXCEPT ![insn.op2.reg] = cvtt2si(ReadFloat(insn.op1, regs))]
      [] insn.type \in {"X86I_SUBSS", "X86I_SUBSD"} ->
            [regs EXCEPT ![insn.op2.reg] = FloatSubLimit(@)]
      [] insn.type = "X86I_SHL" ->
            [regs EXCEPT ![insn.op2.reg] = {i + 1 : i \in @ \ {63}}]
      [] insn.type = "X86I_OR" ->
            [regs EXCEPT ![insn.op2.reg] =
                @ \cup Truncate(ReadWord(insn.op1, regs), SizeBits(insn.size))]
      [] insn.type = "X86I_ROR" ->
            [regs EXCEPT ![insn.op2.reg] =
                {i - 1 : i \in @ \ {0}} \cup (IF 0 \in @ THEN {63} ELSE {})]
      [] insn.type = "X86I_SAR" ->
            [regs EXCEPT ![insn.op2.reg] =
                {i - 1 : i \in @ \ {0}} \cup (IF 63 \in @ THEN {63} ELSE {})]
      [] OTHER -> regs

\* the flags after one instruction
ExecFlags(insn, regs, f) ==
    CASE insn.type \in {"X86I_COMISS", "X86I_COMISD", "X86I_UCOMISS", "X86I_UCOMISD"} ->
            FlagsOfComis(ReadFloat(insn.op1, regs), ReadFloat(insn.op2, regs))
      [] insn.type = "X86I_CMP" ->
            FlagsOfCmp(ReadWord(insn.op1, regs), ReadWord(insn.op2, regs), SizeBits(insn.size))
      [] OTHER -> f

\* the position of the instruction executed next
ExecNext(insns, ip, f) ==
    IF insns[ip].type \in {"X86I_JMP", "X86I_JE", "X86I_JNE", "X86I_JNB"}
          /\ Condition(insns[ip].type, f)
    THEN LabelIndex(insns, insns[ip].op1)
    ELSE ip + 1

(***************************************************************************)
(* AIR instructions of the model: [type, opt, ct], opt the class of the    *)
(* type of ops[1] (and ops[2]) and ct the class of the result type.        *)
(***************************************************************************)
AirInsn(type, opt, ct) == [type |-> type, opt |-> opt, ct |-> ct]

ClassSize(class) ==
    CASE class \in {"CTC_CHAR", "CTC_UNSIGNED_CHAR"} -> 1
      [] class \in {"CTC_SHORT_INT", "CTC_UNSIGNED_SHORT_INT"} -> 2
      [] class \in {"CTC_INT", "CTC_UNSIGNED_INT", "CTC_FLOAT"} -> 4
      [] OTHER -> 8

ClassIsSse(class) == class \in {"CTC_FLOAT", "CTC_DOUBLE"}

ClassIsUnsigned(class) ==
    class \in {"CTC_UNSIGNED_CHAR", "CTC_UNSIGNED_SHORT_INT", "CTC_UNSIGNED_INT",
               "CTC_UNSIGNED_LONG_INT"}

c_type_to_x86_operand_size(class) ==
    CASE ClassSize(class) = 1 -> "X86SZ_BYTE"
      [] ClassSize(class) = 2 -> "X86SZ_WORD"
      [] ClassSize(class) = 4 -> "X86SZ_DWORD"
      [] OTHER -> "X86SZ_QWORD"

\* air_operand_to_x86_operand on ops[k] of the executed instruction
ExecOperand(k, class) ==
    CASE k = 0 -> make_operand_register("rax")
      [] k = 1 -> make_operand_register(IF ClassIsSse(class) THEN "xmm0" ELSE "rcx")
      [] OTHER -> make_operand_register(IF ClassIsSse(class) THEN "xmm1" ELSE "rdx")

\* x86_generate_sse2u64 with the instruction that ends the at-or-above branch
Sse2u64Sequence(ainsn, last) ==
    LET is_float == ainsn.opt = "CTC_FLOAT"
        limit == make_operand_label_ref(IF is_float THEN "__sse32_i64_limit"
                                                    ELSE "__sse64_i64_limit", 0)
        cvt == SizedInsn(IF is_float THEN "X86I_CVTTSS2SI" ELSE "X86I_CVTTSD2SI", "X86SZ_QWORD",
                         ExecOperand(1, ainsn.opt), ExecOperand(0, ainsn.ct))
    IN  << SizedInsn(IF is_float THEN "X86I_COMISS" ELSE "X86I_COMISD",
                     c_type_to_x86_operand_size(ainsn.opt), limit, ExecOperand(1, ainsn.opt)),
           Insn("X86I_JNB", make_operand_label("GEN", 1), NullOp),
           cvt,
           Insn("X86I_JMP", make_operand_label("GEN", 2), NullOp),
           Insn("X86I_LABEL", make_operand_label("GEN", 1), NullOp),
           SizedInsn(IF is_float THEN "X86I_SUBSS" ELSE "X86I_SUBSD",
                     c_type_to_x86_operand_size(ainsn.opt), limit, ExecOperand(1, ainsn.opt)),
           cvt,
           SizedInsn("X86I_SHL", "X86SZ_QWORD", Immediate(1), ExecOperand(0, ainsn.ct)),
           SizedInsn("X86I_OR", "X86SZ_BYTE", Immediate(1), ExecOperand(0, ainsn.ct)),
           SizedInsn(last, "X86SZ_QWORD", Immediate(1), ExecOperand(0, ainsn.ct)),
           Insn("X86I_LABEL", make_operand_label("GEN", 2), NullOp) >>

x86_generate_sse2u64_sar(ainsn) == Sse2u64Sequence(ainsn, "X86I_SAR")

x86_generate_sse2u64(ainsn) == Sse2u64Sequence(ainsn, "X86I_ROR")

x86_generate_sse2unsigned(ainsn) ==
    IF c_type_to_x86_operand_size(ainsn.ct) = "X86SZ_QWORD"
    THEN x86_generate_sse2u64(ainsn)
    ELSE << SizedInsn(IF ainsn.opt = "CTC_FLOAT" THEN "X86I_CVTTSS2SI" ELSE "X86I_CVTTSD2SI",
                      IF c_type_to_x86_operand_size(ainsn.ct) = "X86SZ_DWORD"
                      THEN "X86SZ_QWORD" ELSE "X86SZ_DWORD",
                      ExecOperand(1, ainsn.opt), ExecOperand(0, ainsn.ct)) >>

\* the setcc x86_generate_relational_equality_operator picks
RelationalSetcc(type, opt_sse) ==
    CASE type = "AIR_LESS_EQUAL" -> IF opt_sse THEN "X86I_SETNB" ELSE "X86I_SETLE"
      [] type = "AIR_LESS" -> IF opt_sse THEN "X86I_SETA" ELSE "X86I_SETL"
      [] type = "AIR_GREATER_EQUAL" -> IF opt_sse THEN "X86I_SETNB" ELSE "X86I_SETGE"
      [] type = "AIR_GREATER" -> IF opt_sse THEN "X86I_SETA" ELSE "X86I_SETG"
      [] type = "AIR_EQUAL" -> "X86I_SETE"
      [] OTHER -> "X86I_SETNE"

x86_generate_relational_equality_operator(ainsn) ==
    LET opt_sse == ClassIsSse(ainsn.opt)
        flip == opt_sse /\ ainsn.type \in {"AIR_LESS_EQUAL", "AIR_LESS"}
    IN  << SizedInsn(IF ~opt_sse THEN "X86I_CMP"
                     ELSE IF ainsn.opt = "CTC_FLOAT" THEN "X86I_COMISS" ELSE "X86I_COMISD",
                     c_type_to_x86_operand_size(ainsn.ct),
                     ExecOperand(IF flip THEN 1 ELSE 2, ainsn.opt),
                     ExecOperand(IF flip THEN 2 ELSE 1, ainsn.opt)),
           SizedInsn(RelationalSetcc(ainsn.type, opt_sse), "X86SZ_BYTE",
                     ExecOperand(0, ainsn.ct), NullOp) >>

x86_generate_sse_equality_operator(ainsn) ==
    LET eq == ainsn.type = "AIR_EQUAL"
        cmp == SizedInsn(IF ainsn.opt = "CTC_FLOAT" THEN "X86I_UCOMISS" ELSE "X86I_UCOMISD",
                         c_type_to_x86_operand_size(ainsn.opt),
                         ExecOperand(2, ainsn.opt), ExecOperand(1, ainsn.opt))
    IN  << cmp,
           SizedInsn(IF eq THEN "X86I_SETNP" ELSE "X86I_SETP", "X86SZ_BYTE",
                     ExecOperand(0, ainsn.ct), NullOp),
           cmp,
           Insn("X86I_JE", make_operand_label("GEN", 1), NullOp),
           SizedInsn("X86I_MOV", c_type_to_x86_operand_size(ainsn.ct),
                     Immediate(IF eq THEN 0 ELSE 1), ExecOperand(0, ainsn.ct)),
           Insn("X86I_LABEL", make_operand_label("GEN", 1), NullOp) >>

x86_generate_equality_operator(ainsn) ==
    IF ClassIsSse(ainsn.opt)
    THEN x86_generate_sse_equality_operator(ainsn)
    ELSE x86_generate_relational_equality_operator(ainsn)

RelationalTypes == {"AIR_LESS_EQUAL", "AIR_LESS", "AIR_GREATER_EQUAL", "AIR_GREATER"}

x86_generate_insn(ainsn) ==
    CASE ainsn.type \in RelationalTypes -> x86_generate_relational_equality_operator(ainsn)
      [] ainsn.type \in {"AIR_EQUAL", "AIR_INEQUAL"} -> x86_generate_equality_operator(ainsn)
      [] OTHER -> x86_generate_sse2unsigned(ainsn)

(***************************************************************************)
(* The inputs: the instruction, the values of its operands, the content of *)
(* the result operand and the flags before the sequence runs.              *)
(***************************************************************************)
IntegerClasses == {"CTC_INT", "CTC_UNSIGNED_INT", "CTC_LONG_INT", "CTC_UNSIGNED_LONG_INT"}

ExecInsns ==
    {AirInsn(t, opt, "CTC_INT") :
        t \in RelationalTypes \cup {"AIR_EQUAL", "AIR_INEQUAL"},
        opt \in IntegerClasses \cup {"CTC_FLOAT", "CTC_DOUBLE"}}
    \cup {AirInsn("AIR_S2UI", "CTC_FLOAT", ct) : ct \in {"CTC_UNSIGNED_INT", "CTC_UNSIGNED_LONG_INT"}}
    \cup {AirInsn("AIR_D2UI", "CTC_DOUBLE", ct) : ct \in {"CTC_UNSIGNED_INT", "CTC_UNSIGNED_LONG_INT"}}

\* values of an integer operand: 0, 1, the sign bit alone, all ones, and for
\* 64-bit operands 2^32 and 2^32 + 1
OperandWords(class) ==
    IF ClassSize(class) = 4
    THEN {{}, {0}, {31}, 0..31}
    ELSE {{}, {0}, {63}, Bits64, {32}, {0, 32}}

NaN == Float(TRUE, FALSE, {})

\* 0, 1, 3, 2^62, 2^62 + 2^40, 2^63, 2^63 + 2^40, 2^63 + 2^62, 2^64
Magnitudes == {{}, {0}, {0, 1}, {62}, {40, 62}, {63}, {40, 63}, {62, 63}, {64}}

ConvertedFloats == {NaN} \cup {Float(FALSE, neg, mag) : neg \in BOOLEAN, mag \in Magnitudes}

ComparedFloats == {NaN} \cup {Float(FALSE, neg, mag) : neg \in BOOLEAN, mag \in {{}, {0}, {63}}}

PriorContents == {{}, {0}, {8, 40}, Bits64}

ExecInputs(ainsn) ==
    IF ClassIsSse(ainsn.opt)
    THEN {[rax |-> p, rcx |-> {}, rdx |-> {}, xmm0 |-> a, xmm1 |-> b] :
             p \in PriorContents,
             a \in IF ainsn.type \in {"AIR_S2UI", "AIR_D2UI"} THEN ConvertedFloats ELSE ComparedFloats,
             b \in IF ainsn.type \in {"AIR_S2UI", "AIR_D2UI"} THEN {NaN} ELSE ComparedFloats}
    ELSE {[rax |-> p, rcx |-> a, rdx |-> b, xmm0 |-> NaN, xmm1 |-> NaN] :
             p \in PriorContents, a \in OperandWords(ainsn.opt), b \in OperandWords(ainsn.opt)}

InitExec ==
    /\ AnalyzerIdle
    /\ bpc = "generated"
    /\ aroutine = [uses_varargs |-> FALSE, global |-> FALSE]
    /\ symtab = <<>>
    /\ x86op = <<>>
    /\ out = <<>>
    /\ \E ainsn \in ExecInsns :
          /\ routine = [IdleRoutine EXCEPT !.insns = x86_generate_insn(ainsn)]
          /\ \E regs \in ExecInputs(ainsn), f \in BOOLEAN :
                data = [pc |-> "executing", ainsn |-> ainsn, init |-> regs, regs |-> regs,
                        flags |-> Flags(f, f, f, f), ip |-> 1, hist |-> <<>>]

\* the processor executes the instruction at ip
ExecuteInsn ==
    /\ data.pc = "executing"
    /\ data.ip <= Len(routine.insns)
    /\ data' = [data EXCEPT
                  !.regs = ExecRegs(routine.insns[data.ip], data.regs, data.flags),
                  !.flags = ExecFlags(routine.insns[data.ip], data.regs, data.flags),
                  !.ip = ExecNext(routine.insns, data.ip, data.flags),
                  !.hist = Append(@, [ip |-> data.ip,
                                      rax |-> ExecRegs(routine.insns[data.ip], data.regs,
                                                       data.flags).rax])]
    /\ UNCHANGED <<bpc, aroutine, routine, symtab, x86op, out, analyzerVars>>

\* control leaves the sequence
LeaveSequence ==
    /\ data.pc = "executing"
    /\ data.ip > Len(routine.insns)
    /\ data' = [data EXCEPT !.pc = "executed"]
    /\ UNCHANGED <<bpc, aroutine, routine, symtab, x86op, out, analyzerVars>>

NextExec ==
    \/ ExecuteInsn
    \/ LeaveSequence

SpecExec == InitExec /\ [][NextExec]_vars

Executed(airs) == data.pc = "executed" /\ data.ainsn.type \in airs

\* the positions of the sequence that were executed
Visited == {data.hist[k].ip : k \in 1..Len(data.hist)}

\* the result operand right after the instruction at position ip ran
ResultAfter(ip) == data.hist[CHOOSE k \in 1..Len(data.hist) : data.hist[k].ip = ip].rax

(***************************************************************************)
(* C23: in the sequence of x86_generate_sse2u64 the at-or-above branch is  *)
(* taken exactly when the source is ordered and at least 2^63; there the   *)
(* shift left, the or of 1 into the low byte and the rotate right leave    *)
(* v + 2^63 in the destination for the converted value v, 0 <= v < 2^63,   *)
(* which is the value of a source below 2^64; in the other branch the      *)
(* destination holds the direct signed conversion of the source.  In the   *)
(* sequence position 3 is the direct conversion, 5 the label of the        *)
(* at-or-above branch and 7 the conversion after the subtraction.          *)
(***************************************************************************)
C23_Sse2u64Branches ==
    Executed({"AIR_S2UI", "AIR_D2UI"}) /\ data.ainsn.ct = "CTC_UNSIGNED_LONG_INT" =>
        /\ (5 \in Visited) <=> (~data.init.xmm0.nan /\ ~FloatLess(data.init.xmm0, I64Limit))
        /\ (5 \in Visited) # (3 \in Visited)
        /\ 5 \in Visited =>
              /\ 63 \notin ResultAfter(7) => data.regs.rax = ResultAfter(7) \cup {63}
              /\ 64 \notin data.init.xmm0.mag => data.regs.rax = data.init.xmm0.mag
        /\ 3 \in Visited => data.regs.rax = cvtt2si(data.init.xmm0)

\* 2^63 + 2^40 as a double: the branch is taken and the destination holds it
C23_AboveLimitConverted ==
    /\ Executed({"AIR_D2UI"})
    /\ data.ainsn.ct = "CTC_UNSIGNED_LONG_INT"
    /\ data.init.xmm0 = Float(FALSE, FALSE, {40, 63})
    /\ 5 \in Visited
    /\ data.regs.rax = {40, 63}

\* the two operands of an executed floating comparison
FloatEqual(x, y) == ~Unordered(x, y) /\ ~FloatLess(x, y) /\ ~FloatLess(y, x)

\* the result operand read at the size of the result type, as 0 or 1
ResultIs(b) ==
    Truncate(data.regs.rax, SizeBits(c_type_to_x86_operand_size(data.ainsn.ct)))
        = (IF b THEN {0} ELSE {})

(***************************************************************************)
(* C24: after the sequence of x86_generate_sse_equality_operator, for each *)
(* outcome of the comparison (unordered, less, equal, greater) and any     *)
(* prior content of the destination, the destination read at the size of   *)
(* the result type is 1 exactly when the operands are ordered and equal    *)
(* for ==, 1 exactly when they are unordered or unequal for !=, and 0      *)
(* otherwise.                                                              *)
(***************************************************************************)
C24_SseEqualityResult ==
    Executed({"AIR_EQUAL", "AIR_INEQUAL"}) /\ ClassIsSse(data.ainsn.opt) =>
        ResultIs((data.ainsn.type = "AIR_EQUAL")
                    <=> FloatEqual(data.init.xmm0, data.init.xmm1))

\* the same with a destination that held 0 before the sequence
C24_SseEqualityResultOnClearedDestination ==
    Executed({"AIR_EQUAL", "AIR_INEQUAL"}) /\ ClassIsSse(data.ainsn.opt) /\ data.init.rax = {} =>
        ResultIs((data.ainsn.type = "AIR_EQUAL")
                    <=> FloatEqual(data.init.xmm0, data.init.xmm1))

\* the low byte of the result operand, which a setcc writes, as 0 or 1
ResultByteIs(b) == Truncate(data.regs.rax, 8) = (IF b THEN {0} ELSE {})

\* a < b for two values of the integer type of the given class
IntegerLess(a, b, class) ==
    IF ClassIsUnsigned(class)
    THEN ULess(Truncate(a, 8 * ClassSize(class)), Truncate(b, 8 * ClassSize(class)))
    ELSE SLess(Truncate(a, 8 * ClassSize(class)), Truncate(b, 8 * ClassSize(class)),
               8 * ClassSize(class))

IntegerEqual(a, b, class) ==
    Truncate(a, 8 * ClassSize(class)) = Truncate(b, 8 * ClassSize(class))

\* the value of ops[1] <air> ops[2] in C
Compared(air, a, b, class) ==
    CASE air = "AIR_LESS" -> IntegerLess(a, b, class)
      [] air = "AIR_LESS_EQUAL" -> IntegerLess(a, b, class) \/ IntegerEqual(a, b, class)
      [] air = "AIR_GREATER" -> IntegerLess(b, a, class)
      [] air = "AIR_GREATER_EQUAL" -> IntegerLess(b, a, class) \/ IntegerEqual(a, b, class)
      [] air = "AIR_EQUAL" -> IntegerEqual(a, b, class)
      [] OTHER -> ~IntegerEqual(a, b, class)

(***************************************************************************)
(* C27: for <, <=, > and >= on operands of an integer type as wide as the  *)
(* result type, the compare and set-condition pair yields the unsigned     *)
(* comparison when the type is unsigned (0xFFFFFFFF > 1 is true) and the   *)
(* signed comparison when it is signed.                                    *)
(***************************************************************************)
C27_RelationalFollowsSignedness ==
    Executed(RelationalTypes) /\ data.ainsn.opt \in {"CTC_INT", "CTC_UNSIGNED_INT"} =>
        ResultByteIs(Compared(data.ainsn.type, data.init.rcx, data.init.rdx, data.ainsn.opt))

(***************************************************************************)
(* C28: the compare of integer operands has the size of the operands'      *)
(* type, not of the result type: on operands of a signed 64-bit type ==    *)
(* and != tell equal from unequal and < orders them, also when they differ *)
(* only in the upper 32 bits.                                              *)
(***************************************************************************)
C28_CompareSizedByOperands ==
    Executed({"AIR_EQUAL", "AIR_INEQUAL", "AIR_LESS"}) /\ data.ainsn.opt = "CTC_LONG_INT" =>
        /\ routine.insns[1].size = c_type_to_x86_operand_size(data.ainsn.opt)
        /\ ResultByteIs(Compared(data.ainsn.type, data.init.rcx, data.init.rdx, data.ainsn.opt))

(***************************************************************************)
(* SpecText: x86_write_insn on the instructions of a generated sequence,   *)
(* with their operands.  What an instruction prints is the sequence of the *)
(* texts of its fprintf and x86_write_operand calls, the name (with the    *)
(* suffix and the blank after it) first; the newline is left out.          *)
(***************************************************************************)
\* x86_write_operand prints nothing for a NULL operand
WrittenOperand(op) == IF op.type = "NULL" THEN <<>> ELSE <<x86_write_operand(op)>>

\* case X86I_PUSH .. X86I_IDIV with USUAL_1OP: goto op1
Usual1OpTypes == {"X86I_PUSH", "X86I_NEG", "X86I_MUL", "X86I_DIV", "X86I_IDIV"}

\* the cases that print their name and op1 themselves
JumpTypes == {"X86I_CALL", "X86I_JMP", "X86I_JE", "X86I_JNE", "X86I_JNB", "X86I_JS"}

\* the cases that print their name alone
BareTypes == {"X86I_LEAVE", "X86I_RET", "X86I_STC", "X86I_NOP", "X86I_SYSCALL", "X86I_REP_STOSB"}

x86_write_insn_text(insn) ==
    CASE insn.type \in BareTypes -> <<x86_write_insn_name(insn)>>
      [] insn.type \in JumpTypes \cup SetccTypes \cup Usual1OpTypes ->
            <<x86_write_insn_name(insn)>> \o WrittenOperand(insn.op1)
      [] \E p \in UsualNames : p[1] = insn.type ->
            <<x86_write_insn_name(insn)>> \o WrittenOperand(insn.op1) \o <<", ">>
                \o WrittenOperand(insn.op2)
      [] OTHER -> <<>>

\* x86_generate_complement on a source and a destination operand
x86_generate_complement(size, src, dst) ==
    <<SizedInsn("X86I_NOT", size, src, NullOp)>>
        \o (IF src = dst THEN <<>> ELSE <<SizedInsn("X86I_MOV", size, src, dst)>>)

TextOperands == {make_operand_register("rax"), make_operand_deref_register("rbp", -8)}

TextSizes == {"X86SZ_BYTE", "X86SZ_WORD", "X86SZ_DWORD", "X86SZ_QWORD"}

\* the sequences written: a complement, one instruction with one operand, one
\* with two, one without
TextSequences ==
    {x86_generate_complement(sz, a, b) : sz \in TextSizes, a \in TextOperands, b \in TextOperands}
    \cup {<<SizedInsn(t, sz, a, NullOp)>> :
             t \in Usual1OpTypes \cup SetccTypes, sz \in TextSizes, a \in TextOperands}
    \cup {<<Insn(t, make_operand_label("GEN", n), NullOp)>> : t \in JumpTypes, n \in 1..2}
    \cup {<<SizedInsn(p[1], sz, a, b)>> :
             p \in {q \in UsualNames : q[1] \notin Usual1OpTypes \cup {"X86I_NOT"}},
             sz \in TextSizes, a \in TextOperands, b \in TextOperands}
    \cup {<<Insn(t, NullOp, NullOp)>> : t \in BareTypes \cup {"X86I_POP", "X86I_SKIP"}}

InitText ==
    /\ AnalyzerIdle
    /\ bpc = "generated"
    /\ aroutine = [uses_varargs |-> FALSE, global |-> FALSE]
    /\ \E insns \in TextSequences : routine = [IdleRoutine EXCEPT !.insns = insns]
    /\ symtab = <<>>
    /\ x86op = <<>>
    /\ out = <<>>
    /\ data = [pc |-> "idle"]

\* x86_write_insn on the next instruction of the sequence
WriteInsnText ==
    /\ bpc = "generated"
    /\ Len(out) < Len(routine.insns)
    /\ out' = Append(out, x86_write_insn_text(routine.insns[Len(out) + 1]))
    /\ UNCHANGED <<bpc, aroutine, routine, symtab, x86op, data, analyzerVars>>

SpecText == InitText /\ [][WriteInsnText]_vars

SingleOperandTypes == Usual1OpTypes \cup SetccTypes \cup JumpTypes \cup {"X86I_NOT"}

(***************************************************************************)
(* C30: every instruction with a single operand (neg, not, mul, div, idiv, *)
(* push, the setcc family, the jumps and call) is printed as its mnemonic  *)
(* followed by exactly that operand, with no separator after it; so the    *)
(* not of x86_generate_complement is printed 'not<suffix> <operand>'.      *)
(***************************************************************************)
C30_SingleOperandPrintedAlone ==
    \A k \in 1..Len(out) :
        routine.insns[k].type \in SingleOperandTypes /\ routine.insns[k].op2 = NullOp =>
            out[k] = <<x86_write_insn_name(routine.insns[k]),
                       x86_write_operand(routine.insns[k].op1)>>

\* the automatic symbols that have a stack offset, and the bytes of one
PlacedSymbols == {s \in DOMAIN symtab : symtab[s].sd = "SD_AUTOMATIC" /\ symtab[s].stack_offset # 0}

StackBytes(s) == symtab[s].stack_offset .. (symtab[s].stack_offset + symtab[s].size - 1)

SaveAreaBytes == (0 - VARARGS_SAVE_AREA) .. -1

\* the stack slots while operands are lowered
SlotsApart ==
    bpc = "lowering" =>
        /\ \A s, t \in PlacedSymbols : s # t => StackBytes(s) \cap StackBytes(t) = {}
        /\ \A s \in PlacedSymbols : \A b \in StackBytes(s) : b < 0 /\ b >= routine.stackalloc
        /\ routine.uses_varargs => \A s \in PlacedSymbols : StackBytes(s) \cap SaveAreaBytes = {}

\* one lowering keeps the offsets given out and does not raise the allocation
SlotsKept ==
    bpc = "lowering" =>
        /\ \A s \in PlacedSymbols : symtab'[s].stack_offset = symtab[s].stack_offset
        /\ routine'.stackalloc <= routine.stackalloc

(***************************************************************************)
(* C29: within one routine, after any sequence of operand lowerings, every *)
(* automatic symbol keeps the stack offset of its first use, the stack     *)
(* allocation never increases, the byte ranges [offset, offset + size) of  *)
(* distinct symbols are pairwise disjoint and below rbp, and in a variadic *)
(* routine none of them overlaps the 176-byte register save area.          *)
(***************************************************************************)
C29_StackSlotsStable == []SlotsApart /\ [][SlotsKept]_vars

\* a variadic routine with every symbol placed and one of them lowered again
C29_PlacedSymbolLoweredAgain ==
    /\ bpc = "lowering"
    /\ routine.uses_varargs
    /\ Cardinality(PlacedSymbols) = NumSyms
    /\ x86op.sy \in PlacedSymbols
    /\ ~x86op.first

(***************************************************************************)
(* C26: every byte analyze_static_initializer_after writes into the static *)
(* image of a symbol lies in [0, size of the symbol's type), also for a    *)
(* designator whose index is at or beyond the array's length and for a     *)
(* constant whose expression type is wider than the subobject it           *)
(* initializes at the end of the object.                                   *)
(***************************************************************************)
C26_WritesInsideTheObject ==
    ipc = "done" =>
        \A k \in 1..Len(writes) :
            /\ writes[k].at >= 0
            /\ writes[k].at + writes[k].n <= type_size(types, decl.target)

(***************************************************************************)
(* SpecElide: analyze_init_declarator_after on a declaration whose         *)
(* initializer is one list of expressions without designators and without  *)
(* inner braces, for nested aggregates without padding:                    *)
(*   struct B {int x;};  struct A {struct B b; int y;};                    *)
(*   struct Q {int z; struct A a;};  struct P {int a; int b;};             *)
(***************************************************************************)
ElideTypes ==
    [n \in {"int", "long", "B", "A", "Q", "P", "int[2]", "B[2]", "A[2]", "P[2]"} |->
        CASE n = "int" -> ScalarType("CTC_INT", 4)
          [] n = "long" -> ScalarType("CTC_LONG_INT", 8)
          [] n = "B" -> StructType(<< <<"x", "int">> >>)
          [] n = "A" -> StructType(<< <<"b", "B">>, <<"y", "int">> >>)
          [] n = "Q" -> StructType(<< <<"z", "int">>, <<"a", "A">> >>)
          [] n = "P" -> StructType(<< <<"a", "int">>, <<"b", "int">> >>)
          [] n = "int[2]" -> ArrayType("int", 2)
          [] n = "B[2]" -> ArrayType("B", 2)
          [] n = "A[2]" -> ArrayType("A", 2)
          [] n = "P[2]" -> ArrayType("P", 2)]

ElideTargets == {"B", "A", "Q", "P", "int[2]", "B[2]", "A[2]", "P[2]"}

\* the scalar subobjects of an object of type t at offset base, in declaration
\* order (ISO C99 6.7.8 (17), (20)): [offset, ctype]
RECURSIVE ScalarSubobjects(_, _, _)
RECURSIVE ScalarsFrom(_, _, _, _)
ScalarSubobjects(T, t, base) ==
    IF IsAggregateClass(T[t].class)
    THEN ScalarsFrom(T, t, base, 0)
    ELSE <<[offset |-> base, ctype |-> t]>>

ScalarsFrom(T, t, base, k) ==
    IF k >= get_aggregate_type_element_count(T, t) THEN <<>>
    ELSE ScalarSubobjects(T, ElementType(T, t, k), base + SubobjectOffset(T, t, <<k>>))
            \o ScalarsFrom(T, t, base, k + 1)

\* the lists of the model: up to as many leaves as the target has scalars
ElidedLists(t) ==
    UNION {[1..n -> {Leaf(<<>>, ct) : ct \in LeafTypes}] :
              n \in 1..Len(ScalarSubobjects(ElideTypes, t, 0))}

InitElide ==
    /\ BackendIdle
    /\ ExprIdle
    /\ ipc = "declared"
    /\ \E t \in ElideTargets : \E l \in ElidedLists(t) :
          decl = [target |-> t, init |-> InitList(<<>>, l)]
    /\ types = ElideTypes
    /\ sem = [path \in PathsOf(decl.init, <<>>) |-> Unelaborated]
    /\ errors = <<>>
    /\ image = <<>>
    /\ writes = <<>>

SpecElide == InitElide /\ [][NextInit]_vars

(***************************************************************************)
(* C25: for a list without designators and inner braces that has as many   *)
(* leaves as the target type has scalar subobjects,                        *)
(* add_initializer_list_semantics gives the i-th leaf the i-th scalar      *)
(* subobject in declaration order and reports no error, also after a       *)
(* brace-elided descent through several nested aggregates, as in           *)
(* struct A {struct B {int x;} b; int y;} arr[2] = {1, 2, 3, 4}.           *)
(***************************************************************************)
C25_LeavesFillScalarsInOrder ==
    (/\ ipc \in {"elaborated", "done"}
     /\ Len(decl.init.inits) = Len(ScalarSubobjects(ElideTypes, decl.target, 0))) =>
        /\ errors = <<>>
        /\ \A i \in 1..Len(decl.init.inits) :
              sem[<<i>>] = ScalarSubobjects(ElideTypes, decl.target, 0)[i]
====
